---- MODULE Spec2Model ----
(***************************************************************************)
(* State-machine model of the raicky-relay session bridges.                *)
(*                                                                         *)
(*   - the client bridge, createRealtimeClient (src/unnamed/part_007)      *)
(*   - the telephony bridge, createTwilioRealtimeBridge                    *)
(*     (src/src/openai/text.ts, lines 107-726)                             *)
(*                                                                         *)
(* Every handler the runtime can invoke is one action: JavaScript runs a   *)
(* handler (and the micro-tasks it resolves) to completion before the next *)
(* event is delivered, so the continuation after `await connect()` is part *)
(* of the step that establishes the connection.  Timers are modelled       *)
(* without durations: an armed timer may fire at any later step.           *)
(***************************************************************************)
EXTENDS Integers, Sequences, FiniteSets, TLC

NULL == "null"

\* Bounds of the model (not program constants).
MaxClientMessages == 3
MaxClientServerEvents == 2

VARIABLES
  \* ---- client bridge (src/unnamed/part_007) ----
  c_upstream,            \* realtimeClient: "connecting" | "connected" | "failed" | "disconnected"
  c_serverSocket,        \* serverSocket: [state: "open" | "closing" | "closed", code]
  messageQueue,          \* messageQueue: string[]
  clientTimeLimitTimer,  \* TRUE while the setTimeout of line 60 is pending
  c_upstreamSent,        \* what realtime.send has put on the upstream socket, in order
  c_clientSent,          \* what serverSocket.send has put on the inbound socket, in order
  c_arrived,             \* every frame the "message" listener has been invoked with, in order
  c_serverEvents         \* number of upstream events delivered so far

clientVars == << c_upstream, c_serverSocket, messageQueue, clientTimeLimitTimer,
                 c_upstreamSent, c_clientSent, c_arrived, c_serverEvents >>

VARIABLES
  \* ---- telephony bridge (src/src/openai/text.ts, createTwilioRealtimeBridge) ----
  realtimeClient,        \* upstream client: "connecting" | "connected" | "failed" | "disconnected"
  serverSocket,          \* inbound socket: [state, code, reason]
  voicemailMode,
  callDirection,
  streamSid,
  latestMediaTimestamp,
  lastAssistantItem,
  markQueue,
  responseStartTimestampTwilio,
  speechDetected,
  startEventProcessed,
  voicemailCloseRequested,
  alreadyClosed,
  greetingSent,
  timeLimitTimer,        \* number of pending hard-limit setTimeout callbacks
  timeLimitClosing,
  timeLimitCloseFallback,\* TRUE while the 20 s fallback setTimeout is pending
  timeLimitCloseRequested,
  initialUserMessageSent,
  shouldSendInitialOnConnect,
  twilioQueue,
  greetingTimers,        \* pending setTimeout(sendInitialConversationItem, 50) callbacks
  voicemailDrainTimers,  \* pending 1500 ms callbacks of finalizeVoicemailCloseIfDrained
  timeLimitDrainTimers,  \* pending 1500 ms callbacks of finalizeTimeLimitCloseIfDrained
  upstreamSent,          \* events put on the upstream socket by realtime.send, in order
  twilioSent,            \* events put on the inbound socket by serverSocket.send, in order
  mediaReceived,         \* number of caller media frames received so far
  twilioEvents,          \* number of inbound frames handled so far
  serverEvents           \* number of upstream events handled so far

sessionVars == << voicemailMode, callDirection, streamSid, latestMediaTimestamp,
                  lastAssistantItem, markQueue, responseStartTimestampTwilio,
                  speechDetected, startEventProcessed, voicemailCloseRequested,
                  alreadyClosed, greetingSent, timeLimitClosing, timeLimitCloseRequested,
                  initialUserMessageSent, shouldSendInitialOnConnect, twilioQueue >>
timerVars == << timeLimitTimer, timeLimitCloseFallback, greetingTimers,
                voicemailDrainTimers, timeLimitDrainTimers >>
ioVars == << realtimeClient, serverSocket, upstreamSent, twilioSent >>
countVars == << mediaReceived, twilioEvents, serverEvents >>
twilioVars == << sessionVars, timerVars, ioVars, countVars >>

VARIABLES
  \* ---- token gate (src/unnamed/part_005, src/src/tokens/relay.ts) ----
  now,                   \* Date.now()
  ticks,                 \* number of clock advances so far
  ENCRYPTION_KEY,        \* env.ENCRYPTION_KEY: "" (unset) | "not-base64" | "k1"
  OPENAI_API_KEY,        \* env.OPENAI_API_KEY is set
  authParam,             \* the auth parameter of the next upgrade request, as sent
  validated,             \* the last call of validateAuth and what it returned
  upgraded               \* the last upgrade request and what the bridge did with it

authVars == << now, ticks, ENCRYPTION_KEY, OPENAI_API_KEY, authParam, validated, upgraded >>

VARIABLES
  \* ---- rate limiter (src/src/utils/rateLimiter.ts) and entry dispatcher ----
  rateNow,               \* Date.now() as the limiter reads it
  RATE_LIMITER,          \* env.RATE_LIMITER is bound
  capacity,              \* the capacity every call on the key passes
  intervalMs,            \* the intervalMs every call on the key passes
  buckets,               \* globalThis.__rateLimiter: Map<string, RateBucket>
  consumed,              \* what each rateLimitConsumeLocal call returned, and when
  storage,               \* this.state.storage of the RateLimitBucket object
  inputGate,             \* requests whose pending storage read holds back delivery
  requests,              \* rateLimitConsume calls through the object, by position
  answered,              \* what the object answered, in the order of its writes
  responses              \* what fetch returned for each upgrade request

rateVars == << rateNow, RATE_LIMITER, capacity, intervalMs, buckets, consumed, storage,
               inputGate, requests, answered, responses >>

VARIABLES
  \* ---- the telephony side of the socket ----
  inFlightMarks          \* marks sent to it whose echo has not reached the bridge

peerVars == << inFlightMarks >>

vars == << clientVars, twilioVars, authVars, rateVars, peerVars >>

(***************************************************************************)
(* Token gate                                                              *)
(***************************************************************************)

\* Bound of the model (not a program constant): clock advances in a behaviour.
MaxTicks == 3

\* exp - iat of an issued token: 5 * 60 * 1000 (relay.ts line 37)
TokenTtlMs == 300000
\* tolerated lead of iat over the validator's clock (part_005 line 76)
IatLeadMs == 30000

ContextTags == {"client", "twilio"}
KeyValues == {"", "not-base64", "k1"}
ClockSteps == {1, IatLeadMs, TokenTtlMs}
IssuerLeads == {0, IatLeadMs + 1}

\* An auth parameter.  form: "absent" (no parameter), "symbols" (nothing but
\* characters outside [A-Za-z0-9_-]) or "text".  For a text, len4 is its length
\* modulo 4, bytes says whether it decodes to fewer than 33 bytes ("short") or
\* to iv + ciphertext + tag ("sealed"); key and intact say under which key the
\* tag verifies; plain is what the ciphertext holds.  issued marks the strings
\* generateRelayAuthToken has returned.
AuthToken(form, len4, bytes, key, intact, plain, iat, exp, origin, issued) ==
  [form |-> form, len4 |-> len4, bytes |-> bytes, key |-> key, intact |-> intact,
   plain |-> plain, iat |-> iat, exp |-> exp, origin |-> origin, issued |-> issued]

NoToken == AuthToken("absent", 0, "short", "", FALSE, "nojson", 0, 0, "", FALSE)

\* What a peer without the key can send.
ForgedTokens ==
  { NoToken,
    AuthToken("symbols", 0, "short", "", FALSE, "nojson", 0, 0, "", FALSE),
    AuthToken("text", 1, "short", "", FALSE, "nojson", 0, 0, "", FALSE),
    AuthToken("text", 0, "short", "", FALSE, "nojson", 0, 0, "", FALSE),
    AuthToken("text", 0, "sealed", "k2", TRUE, "payload", 0, 4 * TokenTtlMs, "client", FALSE),
    AuthToken("text", 2, "sealed", "k1", FALSE, "payload", 0, 4 * TokenTtlMs, "twilio", FALSE) }

\* What the holder of the key can seal besides a payload.
SealedOddities ==
  { AuthToken("text", 0, "sealed", "k1", TRUE, "nojson", 0, 0, "", FALSE),
    AuthToken("text", 3, "sealed", "k1", TRUE, "null", 0, 0, "", FALSE) }

\* sanitizeToken and getAuthToken (part_005 lines 5-23): characters outside
\* [A-Za-z0-9_-] are removed, an empty result is null.
getAuthToken(raw) == IF raw.form = "text" THEN raw ELSE NoToken

\* btoa, the three replace calls of relay.ts lines 41-42: the length modulo 4 of
\* the unpadded base64url text of n bytes, by n modulo 3.
base64UrlLen4(nMod3) == CASE nMod3 = 0 -> 0 [] nMod3 = 1 -> 2 [] OTHER -> 3

\* base64UrlToBytes (src/src/index.ts lines 1031-1038): pads to a multiple of 4
\* and calls atob, which throws on a text of length 1 modulo 4.
base64UrlToBytesThrows(token) == token.len4 = 1

\* base64ToBytes(env.ENCRYPTION_KEY) (part_005 line 62)
base64ToBytesThrows(key) == key = "not-base64"

\* decryptAesGcm (part_005 lines 25-46)
decryptAesGcmThrows(token, key) ==
  \/ token.bytes = "short"
  \/ token.key # key
  \/ ~token.intact

\* JSON.parse of line 65 and the property reads of lines 72-80
decodeThrows(token) == token.plain \in {"nojson", "null"}

\* mutant of generateRelayAuthToken: exp is ten lifetimes ahead.
generateRelayAuthTokenLong(key, origin, t, nMod3) ==
  AuthToken("text", base64UrlLen4(nMod3), "sealed", key, TRUE, "payload",
            t, t + 10 * TokenTtlMs, origin, TRUE)

\* generateRelayAuthToken (relay.ts lines 35-43); `t` is the issuer's Date.now().
generateRelayAuthToken(key, origin, t, nMod3) ==
  AuthToken("text", base64UrlLen4(nMod3), "sealed", key, TRUE, "payload",
            t, t + TokenTtlMs, origin, TRUE)

\* mutant of validateAuthTry: the origin is not compared.
validateAuthTryAnyOrigin(token, key, expectedOrigin, t) ==
  IF token.form # "text" THEN "false"
  ELSE IF key = "" THEN "false"
  ELSE IF base64ToBytesThrows(key) \/ base64UrlToBytesThrows(token) THEN "threw"
  ELSE IF decryptAesGcmThrows(token, key) THEN "threw"
  ELSE IF decodeThrows(token) THEN "threw"
  ELSE IF token.exp < t THEN "false"
  ELSE IF token.iat > t + IatLeadMs THEN "false"
  ELSE "true"

\* the try block of validateAuth (part_005 lines 54-84); `t` is Date.now() of line 71.
validateAuthTry(token, key, expectedOrigin, t) ==
  IF token.form # "text" THEN "false"
  ELSE IF key = "" THEN "false"
  ELSE IF base64ToBytesThrows(key) \/ base64UrlToBytesThrows(token) THEN "threw"
  ELSE IF decryptAesGcmThrows(token, key) THEN "threw"
  ELSE IF decodeThrows(token) THEN "threw"
  ELSE IF token.exp < t THEN "false"
  ELSE IF token.iat > t + IatLeadMs THEN "false"
  ELSE IF token.origin # expectedOrigin THEN "false"
  ELSE "true"

\* mutant of validateAuth: the catch of line 85 is missing.
validateAuthNoCatch(token, key, expectedOrigin, t) ==
  validateAuthTry(token, key, expectedOrigin, t)

\* validateAuth (part_005 lines 48-89)
validateAuth(token, key, expectedOrigin, t) ==
  IF validateAuthTry(token, key, expectedOrigin, t) = "threw" THEN "false"
  ELSE validateAuthTry(token, key, expectedOrigin, t)


\* What an upgrade request came to: the HTTP status answered, whether the
\* inbound socket was accepted, the code it was closed with at once (0: not
\* closed), and whether the bridge went on to create its upstream client.
UpgradeOutcome(bridge, token, t, status, accepted, closeCode, upstream) ==
  [done |-> TRUE, bridge |-> bridge, token |-> token, at |-> t, status |-> status,
   accepted |-> accepted, closeCode |-> closeCode, upstream |-> upstream]

\* mutant of createRealtimeClient: the token is not looked at.
createRealtimeClientNoGate(raw, key, apiKey, t) ==
  IF ~apiKey THEN UpgradeOutcome("client", raw, t, 401, FALSE, 0, FALSE)
  ELSE UpgradeOutcome("client", raw, t, 101, TRUE, 0, TRUE)

\* createRealtimeClient up to the creation of the upstream client
\* (part_007 lines 21-45)
createRealtimeClient(raw, key, apiKey, t) ==
  IF ~apiKey THEN UpgradeOutcome("client", raw, t, 401, FALSE, 0, FALSE)
  ELSE IF validateAuth(getAuthToken(raw), key, "client", t) # "true"
    THEN UpgradeOutcome("client", raw, t, 401, FALSE, 0, FALSE)
    ELSE UpgradeOutcome("client", raw, t, 101, TRUE, 0, TRUE)

\* createTwilioRealtimeBridge up to the creation of the upstream client
\* (text.ts lines 115-135, 294-300): the socket is accepted before the check.
createTwilioRealtimeBridge(raw, key, t) ==
  IF validateAuth(getAuthToken(raw), key, "twilio", t) # "true"
    THEN UpgradeOutcome("twilio", raw, t, 101, TRUE, 1008, FALSE)
    ELSE UpgradeOutcome("twilio", raw, t, 101, TRUE, 0, TRUE)

NoValidation == [done |-> FALSE, token |-> NoToken, tag |-> "", at |-> 0, result |-> ""]
NoUpgrade ==
  [done |-> FALSE, bridge |-> "", token |-> NoToken, at |-> 0, status |-> 0,
   accepted |-> FALSE, closeCode |-> 0, upstream |-> FALSE]

IdleAuth ==
  /\ now = 1
  /\ ticks = 0
  /\ ENCRYPTION_KEY = "k1"
  /\ OPENAI_API_KEY = TRUE
  /\ authParam = NoToken
  /\ validated = NoValidation
  /\ upgraded = NoUpgrade

InitAuth ==
  /\ now = 1
  /\ ticks = 0
  /\ ENCRYPTION_KEY \in KeyValues
  /\ OPENAI_API_KEY \in BOOLEAN
  /\ authParam = NoToken
  /\ validated = NoValidation
  /\ upgraded = NoUpgrade

\* Time passes.
ClockAdvances ==
  /\ ticks < MaxTicks
  /\ \E d \in ClockSteps : now' = now + d
  /\ ticks' = ticks + 1
  /\ UNCHANGED << ENCRYPTION_KEY, OPENAI_API_KEY, authParam, validated, upgraded >>

\* The issuer, whose clock may be ahead, mints a token and the peer sends it.
IssueToken ==
  /\ ~validated.done /\ ~upgraded.done
  /\ ENCRYPTION_KEY = "k1"
  /\ \E origin \in ContextTags, lead \in IssuerLeads, nMod3 \in 0..2 :
       authParam' = generateRelayAuthToken(ENCRYPTION_KEY, origin, now + lead, nMod3)
  /\ UNCHANGED << now, ticks, ENCRYPTION_KEY, OPENAI_API_KEY, validated, upgraded >>

\* The peer sends something else.
PresentToken ==
  /\ ~validated.done /\ ~upgraded.done
  /\ authParam' \in ForgedTokens \cup SealedOddities
  /\ UNCHANGED << now, ticks, ENCRYPTION_KEY, OPENAI_API_KEY, validated, upgraded >>

\* validateAuth(getAuthToken(url), env, expectedOrigin)
Validate ==
  /\ ~validated.done
  /\ \E tag \in ContextTags :
       validated' = [done |-> TRUE, token |-> authParam, tag |-> tag, at |-> now,
                     result |-> validateAuth(getAuthToken(authParam), ENCRYPTION_KEY,
                                             tag, now)]
  /\ UNCHANGED << now, ticks, ENCRYPTION_KEY, OPENAI_API_KEY, authParam, upgraded >>

\* an upgrade request reaches the client bridge
ClientUpgrade ==
  /\ ~upgraded.done
  /\ upgraded' = createRealtimeClient(authParam, ENCRYPTION_KEY, OPENAI_API_KEY, now)
  /\ UNCHANGED << now, ticks, ENCRYPTION_KEY, OPENAI_API_KEY, authParam, validated >>

\* an upgrade request reaches the telephony bridge
TwilioUpgrade ==
  /\ ~upgraded.done
  /\ upgraded' = createTwilioRealtimeBridge(authParam, ENCRYPTION_KEY, now)
  /\ UNCHANGED << now, ticks, ENCRYPTION_KEY, OPENAI_API_KEY, authParam, validated >>

(***************************************************************************)
(* Rate limiter and entry dispatcher                                       *)
(*                                                                         *)
(* Token counts are fractions: a bucket gains capacity / intervalMs tokens *)
(* per millisecond.  Every caller passes the same two numbers for a key,   *)
(* so tokens are held here as whole multiples of 1 / intervalMs of a       *)
(* token and the arithmetic of the source is carried out exactly.          *)
(***************************************************************************)

MaxRateClock == 4
MaxConsumes == 4
MaxBucketRequests == 3
MaxFetches == 3
PruneIdleMs == 300000

Capacities == {1, 2}
Intervals == {2, 3}
RateKey == "k"
WsKey == "ws:ip1"
RequestIds == 1 .. MaxBucketRequests

\* the number 1 of `tokens < 1` and `tokens -= 1`, in the unit tokens are held in
OneToken == intervalMs

\* capacity / intervalMs, kept as the fraction it is
refillPerMsOf(cap, ivl) == [num |-> cap, den |-> ivl]

\* elapsed * bucket.refillPerMs
refillAmount(elapsed, refillPerMs) ==
  (elapsed * refillPerMs.num * OneToken) \div refillPerMs.den

RateBucket(tokens, lastRefill, cap, ivl) ==
  [tokens |-> tokens, lastRefill |-> lastRefill, capacity |-> cap,
   refillPerMs |-> refillPerMsOf(cap, ivl)]

MapSet(map, key, value) ==
  [k \in DOMAIN map \cup {key} |-> IF k = key THEN value ELSE map[k]]

EmptyMap == [k \in {} |-> 0]

\* Mutant: the first use leaves the bucket full.
firstBucketFull(cap, ivl, t) == RateBucket(cap * OneToken, t, cap, ivl)

\* { tokens: capacity - 1, lastRefill: now, capacity, refillPerMs }
firstBucket(cap, ivl, t) == RateBucket((cap - 1) * OneToken, t, cap, ivl)

\* Mutant: the refill is not clamped to the capacity.
refillUnclamped(bucket, cap, t) ==
  bucket.tokens + refillAmount(t - bucket.lastRefill, bucket.refillPerMs)

\* tokens = bucket.tokens + (now - bucket.lastRefill) * bucket.refillPerMs,
\* clamped from above to the capacity of this call
refill(bucket, cap, t) ==
  LET tokens == bucket.tokens + refillAmount(t - bucket.lastRefill, bucket.refillPerMs)
  IN IF tokens > cap * OneToken THEN cap * OneToken ELSE tokens

\* Mutant: the wait is rounded down.
retryAfterFloor(tokens, refillPerMs) ==
  ((OneToken - tokens) * refillPerMs.den) \div (refillPerMs.num * OneToken)

\* Math.ceil((1 - tokens) / refillPerMs)
retryAfter(tokens, refillPerMs) ==
  LET numerator == (OneToken - tokens) * refillPerMs.den
      denominator == refillPerMs.num * OneToken
  IN (numerator + denominator - 1) \div denominator

\* pruneLocalRateLimiter: full buckets idle for more than five minutes go
pruneLocalRateLimiter(map, t) ==
  LET kept == { k \in DOMAIN map :
                  ~ (/\ map[k].tokens >= map[k].capacity * OneToken
                     /\ t - map[k].lastRefill > PruneIdleMs) }
  IN [k \in kept |-> map[k]]

\* rateLimitConsumeLocal(key, capacity, intervalMs) at time t on the map;
\* prune is the outcome of Math.random() < 0.01
rateLimitConsumeLocal(map, key, cap, ivl, t, prune) ==
  LET pruned(m) == IF prune THEN pruneLocalRateLimiter(m, t) ELSE m
  IN IF key \notin DOMAIN map
     THEN [buckets |-> pruned(MapSet(map, key, firstBucket(cap, ivl, t))),
           allowed |-> TRUE, retryAfterMs |-> 0]
     ELSE LET tokens == refill(map[key], cap, t)
          IN IF tokens < OneToken
             THEN [buckets |-> pruned(MapSet(map, key, RateBucket(tokens, t, cap, ivl))),
                   allowed |-> FALSE,
                   retryAfterMs |-> retryAfter(tokens, refillPerMsOf(cap, ivl))]
             ELSE [buckets |-> pruned(MapSet(map, key,
                                             RateBucket(tokens - OneToken, t, cap, ivl))),
                   allowed |-> TRUE, retryAfterMs |-> 0]

\* Mutant of bucketConsume: the first request is admitted without taking a token.
bucketConsumeFirstFree(stored, cap, ivl, t) ==
  IF "bucket" \notin DOMAIN stored
  THEN [bucket |-> RateBucket(cap * OneToken, t, cap, ivl), allowed |-> TRUE,
        retryAfterMs |-> 0]
  ELSE LET tokens == refill(stored["bucket"], cap, t)
       IN IF tokens < OneToken
          THEN [bucket |-> RateBucket(tokens, t, cap, ivl), allowed |-> FALSE,
                retryAfterMs |-> retryAfter(tokens, refillPerMsOf(cap, ivl))]
          ELSE [bucket |-> RateBucket(tokens - OneToken, t, cap, ivl), allowed |-> TRUE,
                retryAfterMs |-> 0]

\* The part of RateLimitBucket.fetch after the storage read: `stored` is what
\* storage.get("bucket") gave, t the Date.now() taken before the read.
bucketConsume(stored, cap, ivl, t) ==
  LET bucket == IF "bucket" \in DOMAIN stored
                THEN stored["bucket"]
                ELSE RateBucket(cap * OneToken, t, cap, ivl)
      tokens == refill(bucket, cap, t)
  IN IF tokens < OneToken
     THEN [bucket |-> RateBucket(tokens, t, cap, ivl), allowed |-> FALSE,
           retryAfterMs |-> retryAfter(tokens, refillPerMsOf(cap, ivl))]
     ELSE [bucket |-> RateBucket(tokens - OneToken, t, cap, ivl), allowed |-> TRUE,
           retryAfterMs |-> 0]

\* Mutant: a pending storage read holds nothing back.
inputGateIgnored == TRUE

\* `await this.state.storage.get(...)`: while the read is pending the object
\* is handed no other event, so no second request passes its own read
inputGateOpen == inputGate = {}

\* What stub.fetch gave the caller.
FetchRejected == [kind |-> "rejected", ok |-> FALSE, allowed |-> FALSE, retryAfterMs |-> 0]
FetchNotOk == [kind |-> "response", ok |-> FALSE, allowed |-> FALSE, retryAfterMs |-> 0]
FetchOk(allowed, retryAfterMs) ==
  [kind |-> "response", ok |-> TRUE, allowed |-> allowed, retryAfterMs |-> retryAfterMs]

\* rateLimitConsume(env, ...) from `await stub.fetch(...)` on: a rejected
\* fetch is not caught, a response that is not ok admits
rateLimitConsume(res) ==
  IF res.kind = "rejected"
  THEN [threw |-> TRUE, allowed |-> FALSE, retryAfterMs |-> 0]
  ELSE IF ~ res.ok
       THEN [threw |-> FALSE, allowed |-> TRUE, retryAfterMs |-> 0]
       ELSE [threw |-> FALSE, allowed |-> res.allowed, retryAfterMs |-> res.retryAfterMs]

NoResult == [threw |-> FALSE, allowed |-> FALSE, retryAfterMs |-> 0]

IdleRequest ==
  [pc |-> "idle", now |-> 0, stored |-> EmptyMap, res |-> "none", result |-> NoResult]

\* The upgrade requests fetch is given: what the request looks like and
\* whether its Origin is on the allowlist.
UpgradeKinds == {"twilio", "client"}

\* fetch for a request with Upgrade: websocket
fetch(kind, originAllowed, map, cap, ivl, t, prune) ==
  IF kind = "twilio"
  THEN [buckets |-> map, limited |-> FALSE, allowed |-> FALSE,
        status |-> "createTwilioRealtimeBridge"]
  ELSE IF ~ originAllowed
       THEN [buckets |-> map, limited |-> FALSE, allowed |-> FALSE, status |-> "403"]
       ELSE LET rl == rateLimitConsumeLocal(map, WsKey, cap, ivl, t, prune)
            IN IF ~ rl.allowed
               THEN [buckets |-> rl.buckets, limited |-> TRUE, allowed |-> FALSE,
                     status |-> "429"]
               ELSE [buckets |-> rl.buckets, limited |-> TRUE, allowed |-> TRUE,
                     status |-> "createRealtimeClient"]

IdleRate ==
  /\ rateNow = 0
  /\ RATE_LIMITER = FALSE
  /\ capacity = 1
  /\ intervalMs = 2
  /\ buckets = EmptyMap
  /\ consumed = << >>
  /\ storage = EmptyMap
  /\ inputGate = {}
  /\ requests = [r \in RequestIds |-> IdleRequest]
  /\ answered = << >>
  /\ responses = << >>

InitRate ==
  /\ rateNow = 0
  /\ RATE_LIMITER \in BOOLEAN
  /\ capacity \in Capacities
  /\ intervalMs \in Intervals
  /\ buckets = EmptyMap
  /\ consumed = << >>
  /\ storage = EmptyMap
  /\ inputGate = {}
  /\ requests = [r \in RequestIds |-> IdleRequest]
  /\ answered = << >>
  /\ responses = << >>

\* A millisecond passes.
RateClockAdvances ==
  /\ rateNow < MaxRateClock
  /\ rateNow' = rateNow + 1
  /\ UNCHANGED << RATE_LIMITER, capacity, intervalMs, buckets, consumed, storage, inputGate,
                  requests, answered, responses >>

\* rateLimitConsume(env, ...) without the binding: rateLimitConsumeLocal
Consume ==
  /\ ~ RATE_LIMITER
  /\ Len(consumed) < MaxConsumes
  /\ \E prune \in BOOLEAN :
       LET rl == rateLimitConsumeLocal(buckets, RateKey, capacity, intervalMs,
                                       rateNow, prune)
       IN /\ buckets' = rl.buckets
          /\ consumed' = Append(consumed, [allowed |-> rl.allowed,
                                           retryAfterMs |-> rl.retryAfterMs,
                                           at |-> rateNow])
  /\ UNCHANGED << rateNow, RATE_LIMITER, capacity, intervalMs, storage, inputGate, requests,
                  answered, responses >>

\* rateLimitConsume with the binding: stub.fetch reaches the object, which
\* starts RateLimitBucket.fetch and waits for the request body
BucketRequest(r) ==
  /\ RATE_LIMITER
  /\ requests[r].pc = "idle"
  /\ requests' = [requests EXCEPT ![r].pc = "json"]
  /\ UNCHANGED << rateNow, RATE_LIMITER, capacity, intervalMs, buckets, consumed, storage,
                  inputGate, answered, responses >>

\* RateLimitBucket.fetch from the parsed body to the storage read
BucketGet(r) ==
  /\ requests[r].pc = "json"
  /\ inputGateOpen
  /\ requests' = [requests EXCEPT ![r].pc = "get", ![r].now = rateNow,
                                  ![r].stored = storage]
  /\ inputGate' = inputGate \cup {r}
  /\ UNCHANGED << rateNow, RATE_LIMITER, capacity, intervalMs, buckets, consumed, storage,
                  answered, responses >>

\* RateLimitBucket.fetch from the value read to the response, and
\* rateLimitConsume on that response
BucketPut(r) ==
  /\ requests[r].pc = "get"
  /\ LET out == bucketConsume(requests[r].stored, capacity, intervalMs, requests[r].now)
     IN /\ storage' = MapSet(storage, "bucket", out.bucket)
        /\ answered' = Append(answered, [now |-> requests[r].now,
                                         allowed |-> out.allowed,
                                         retryAfterMs |-> out.retryAfterMs])
        /\ requests' = [requests EXCEPT
                          ![r].pc = "done", ![r].res = "ok",
                          ![r].result = rateLimitConsume(FetchOk(out.allowed,
                                                                 out.retryAfterMs))]
  /\ inputGate' = inputGate \ {r}
  /\ UNCHANGED << rateNow, RATE_LIMITER, capacity, intervalMs, buckets, consumed, responses >>

\* stub.fetch does not get an answer from the object: the promise rejects,
\* or resolves with a response whose status is not 2xx
BucketUnavailable(r) ==
  /\ RATE_LIMITER
  /\ requests[r].pc = "idle"
  /\ \E res \in {FetchRejected, FetchNotOk} :
       requests' = [requests EXCEPT
                      ![r].pc = "done",
                      ![r].res = IF res.kind = "rejected" THEN "rejected" ELSE "not-ok",
                      ![r].result = rateLimitConsume(res)]
  /\ UNCHANGED << rateNow, RATE_LIMITER, capacity, intervalMs, buckets, consumed, storage,
                  inputGate, answered, responses >>

\* fetch(request, env, ctx) for a request with Upgrade: websocket
Fetch ==
  /\ Len(responses) < MaxFetches
  /\ \E kind \in UpgradeKinds, originAllowed \in BOOLEAN, prune \in BOOLEAN :
       LET out == fetch(kind, originAllowed, buckets, capacity, intervalMs,
                        rateNow, prune)
       IN /\ buckets' = out.buckets
          /\ responses' = Append(responses, [kind |-> kind,
                                             originAllowed |-> originAllowed,
                                             limited |-> out.limited,
                                             allowed |-> out.allowed,
                                             status |-> out.status])
  /\ UNCHANGED << rateNow, RATE_LIMITER, capacity, intervalMs, consumed, storage, inputGate,
                  requests, answered >>

\* The same call, with the time of the clock and a capacity of the caller's
\* choice, made on the in-memory bucket and on the object's bucket of one key.
ConsumeBoth ==
  /\ Len(consumed) < MaxConsumes
  /\ \E cap \in Capacities, prune \in BOOLEAN :
       LET rl == rateLimitConsumeLocal(buckets, RateKey, cap, intervalMs, rateNow, prune)
           out == bucketConsume(storage, cap, intervalMs, rateNow)
       IN /\ buckets' = rl.buckets
          /\ consumed' = Append(consumed, [allowed |-> rl.allowed,
                                           retryAfterMs |-> rl.retryAfterMs,
                                           at |-> rateNow, capacity |-> cap])
          /\ storage' = MapSet(storage, "bucket", out.bucket)
          /\ answered' = Append(answered, [now |-> rateNow,
                                           allowed |-> out.allowed,
                                           retryAfterMs |-> out.retryAfterMs])
  /\ UNCHANGED << rateNow, RATE_LIMITER, capacity, intervalMs, inputGate, requests,
                  responses >>

\* The keys of two callers of the in-memory limiter.
PruneKeys == {RateKey, WsKey}

\* More than five minutes pass without a call.
FiveMinutesPass ==
  /\ rateNow < MaxRateClock
  /\ rateNow' = rateNow + PruneIdleMs + 1
  /\ UNCHANGED << RATE_LIMITER, capacity, intervalMs, buckets, consumed, storage, inputGate,
                  requests, answered, responses >>

\* rateLimitConsumeLocal for one of the keys; the log keeps the key and whether
\* the call ran pruneLocalRateLimiter.
ConsumeKey ==
  /\ ~ RATE_LIMITER
  /\ Len(consumed) < MaxConsumes
  /\ \E key \in PruneKeys, prune \in BOOLEAN :
       LET rl == rateLimitConsumeLocal(buckets, key, capacity, intervalMs, rateNow, prune)
       IN /\ buckets' = rl.buckets
          /\ consumed' = Append(consumed, [allowed |-> rl.allowed,
                                           retryAfterMs |-> rl.retryAfterMs,
                                           at |-> rateNow, key |-> key,
                                           pruned |-> prune])
  /\ UNCHANGED << rateNow, RATE_LIMITER, capacity, intervalMs, storage, inputGate, requests,
                  answered, responses >>

(***************************************************************************)
(* Client bridge                                                           *)
(***************************************************************************)

\* A frame from the client: `id` is its arrival number, `ok` says whether
\* JSON.parse yields an event envelope that realtime.send accepts.
ClientFrame(n, ok) == [id |-> n, ok |-> ok]

\* RealtimeClient.isConnected()
c_isConnected == c_upstream = "connected"

\* serverSocket.close(code): the first close wins, later calls throw and are caught.
CloseSocket(sock, code) ==
  IF sock.state = "open" THEN [state |-> "closing", code |-> code] ELSE sock

\* messageHandler (lines 72-79): parse, then realtime.send; every exception is caught.
\* Returns the upstream log after handling `data` while the upstream state is `up`.
messageHandler(sent, data, up) ==
  IF data.ok /\ up = "connected" THEN Append(sent, data.id) ELSE sent

\* mutant of messageQueueFlush: drains the queue from the tail (pop instead of shift).
RECURSIVE messageQueueFlushLifo(_, _, _)
messageQueueFlushLifo(sent, queue, up) ==
  IF queue = << >> THEN sent
  ELSE messageQueueFlushLifo(messageHandler(sent, queue[Len(queue)], up),
                             SubSeq(queue, 1, Len(queue) - 1), up)

\* mutant of messageQueueFlush: a frame that does not parse ends the loop.
RECURSIVE messageQueueFlushAborts(_, _, _)
messageQueueFlushAborts(sent, queue, up) ==
  IF queue = << >> \/ ~ Head(queue).ok THEN sent
  ELSE messageQueueFlushAborts(messageHandler(sent, Head(queue), up), Tail(queue), up)

\* the while loop of lines 106-109: shift and handle until the queue is empty.
RECURSIVE messageQueueFlush(_, _, _)
messageQueueFlush(sent, queue, up) ==
  IF queue = << >> THEN sent
  ELSE messageQueueFlush(messageHandler(sent, Head(queue), up), Tail(queue), up)

InitClient ==
  /\ c_upstream = "connecting"
  /\ c_serverSocket = [state |-> "open", code |-> 0]
  /\ messageQueue = << >>
  /\ clientTimeLimitTimer = TRUE
  /\ c_upstreamSent = << >>
  /\ c_clientSent = << >>
  /\ c_arrived = << >>
  /\ c_serverEvents = 0

\* serverSocket "message" listener (lines 81-88)
ClientMessage ==
  /\ c_serverSocket.state = "open"
  /\ Len(c_arrived) < MaxClientMessages
  /\ \E ok \in BOOLEAN :
       LET data == ClientFrame(Len(c_arrived) + 1, ok) IN
         /\ c_arrived' = Append(c_arrived, data)
         /\ IF ~c_isConnected
              THEN /\ messageQueue' = Append(messageQueue, data)
                   /\ UNCHANGED c_upstreamSent
              ELSE /\ c_upstreamSent' = messageHandler(c_upstreamSent, data, c_upstream)
                   /\ UNCHANGED messageQueue
  /\ UNCHANGED << c_upstream, c_serverSocket, clientTimeLimitTimer, c_clientSent, c_serverEvents >>

\* connect() resolves (lines 104-109): the queue is flushed in the same step.
ClientConnectResolved ==
  /\ c_upstream = "connecting"
  /\ c_upstream' = "connected"
  /\ c_upstreamSent' = messageQueueFlush(c_upstreamSent, messageQueue, "connected")
  /\ messageQueue' = << >>
  /\ UNCHANGED << c_serverSocket, clientTimeLimitTimer, c_clientSent, c_arrived, c_serverEvents >>

\* connect() rejects (lines 110-113)
ClientConnectFailed ==
  /\ c_upstream = "connecting"
  /\ c_upstream' = "failed"
  /\ c_serverSocket' = CloseSocket(c_serverSocket, 1011)
  /\ UNCHANGED << messageQueue, clientTimeLimitTimer, c_upstreamSent, c_clientSent,
                  c_arrived, c_serverEvents >>

\* realtime.on("server.*") (lines 62-64): forward the event to the client.
ClientServerEvent ==
  /\ c_upstream = "connected"
  /\ c_serverEvents < MaxClientServerEvents
  /\ c_serverEvents' = c_serverEvents + 1
  /\ c_clientSent' = IF c_serverSocket.state = "open"
                       THEN Append(c_clientSent, "server_event")
                       ELSE c_clientSent
  /\ UNCHANGED << c_upstream, c_serverSocket, messageQueue, clientTimeLimitTimer,
                  c_upstreamSent, c_arrived >>

\* realtime.on("close") (lines 66-69): the upstream socket went away.
ClientUpstreamClose ==
  /\ c_upstream = "connected"
  /\ c_upstream' = "disconnected"
  /\ c_serverSocket' = CloseSocket(c_serverSocket, 1005)
  /\ UNCHANGED << messageQueue, clientTimeLimitTimer, c_upstreamSent, c_clientSent,
                  c_arrived, c_serverEvents >>

\* serverSocket "close" listener (lines 90-95): the peer closed, or acknowledged our close.
ClientSocketClose ==
  /\ c_serverSocket.state \in {"open", "closing"}
  /\ c_serverSocket' = [state |-> "closed",
                        code |-> IF c_serverSocket.state = "open" THEN 1000
                                 ELSE c_serverSocket.code]
  /\ c_upstream' = IF c_upstream = "connected" THEN "disconnected" ELSE c_upstream
  /\ messageQueue' = << >>
  /\ clientTimeLimitTimer' = FALSE
  /\ UNCHANGED << c_upstreamSent, c_clientSent, c_arrived, c_serverEvents >>

\* endClientDueToTimeLimit (lines 51-59), run by the timer of line 60.
endClientDueToTimeLimit ==
  /\ clientTimeLimitTimer
  /\ clientTimeLimitTimer' = FALSE
  /\ c_clientSent' = IF c_serverSocket.state = "open"
                       THEN Append(c_clientSent, "system.time_limit")
                       ELSE c_clientSent
  /\ c_serverSocket' = CloseSocket(c_serverSocket, 4000)
  /\ c_upstream' = IF c_upstream = "connected" THEN "disconnected" ELSE c_upstream
  /\ UNCHANGED << messageQueue, c_upstreamSent, c_arrived, c_serverEvents >>

(***************************************************************************)
(* Telephony bridge                                                        *)
(***************************************************************************)

\* Bounds of the model (not program constants).
MaxTwilioEvents == 3
MaxServerEvents == 2

\* Inputs the environment may present.
Timestamps == {0, 1000, 1350}                 \* media.timestamp values
AmdValues == {"human", "machine_start"}       \* values of the amd parameter
DirectionValues == {"inbound", "outbound", "sideways"}
StreamSids == {"MZ1"}                         \* start.streamSid
ItemIds == {"item_1"}                         \* item_id of an audio delta
UrlAmdParams == {"", "machine_start"}         \* ?amd= of the connection URL
UrlDirectionParams == {"", "outbound"}        \* ?direction= of the connection URL

\* value.includes("machine") || value === "machine_start" || ... (lines 543-548)
MachineValues == {"machine", "machine_start", "machine_end_beep",
                  "machine_end_silence", "machine_end_other"}
amdIsMachine(value) == value \in MachineValues

\* buildInitialCallGreeting (src/unnamed/part_006, lines 3-21); the result names the text.
\* mutant: the direction is looked at before the voicemail flag.
buildInitialCallGreetingDirectionFirst(vm, dir) ==
  IF dir = "inbound" THEN "inbound_opener"
  ELSE IF dir = "outbound" THEN "outbound_opener"
  ELSE IF vm THEN "voicemail_script"
  ELSE "generic_opener"

buildInitialCallGreeting(vm, dir) ==
  IF vm THEN "voicemail_script"
  ELSE IF dir = "inbound" THEN "inbound_opener"
  ELSE IF dir = "outbound" THEN "outbound_opener"
  ELSE "generic_opener"

GreetingTexts == {"voicemail_script", "inbound_opener", "outbound_opener", "generic_opener"}

\* An event on the upstream socket / on the inbound socket.
UpEvent(type, text, n, item) == [type |-> type, text |-> text, n |-> n, item |-> item]
TwEvent(event, n) == [event |-> event, n |-> n]

\* (`text` of an append-audio event is "queued" when the flush loop of line 705
\* sent it and NULL when the media branch of line 512 did.)

\* The bridge's closure state as one record, so that the nested functions of the
\* source can be applied one after the other.
State ==
  [ realtimeClient |-> realtimeClient, serverSocket |-> serverSocket,
    voicemailMode |-> voicemailMode, callDirection |-> callDirection,
    streamSid |-> streamSid, latestMediaTimestamp |-> latestMediaTimestamp,
    lastAssistantItem |-> lastAssistantItem, markQueue |-> markQueue,
    responseStartTimestampTwilio |-> responseStartTimestampTwilio,
    speechDetected |-> speechDetected, startEventProcessed |-> startEventProcessed,
    voicemailCloseRequested |-> voicemailCloseRequested, alreadyClosed |-> alreadyClosed,
    greetingSent |-> greetingSent, timeLimitTimer |-> timeLimitTimer,
    timeLimitClosing |-> timeLimitClosing,
    timeLimitCloseFallback |-> timeLimitCloseFallback,
    timeLimitCloseRequested |-> timeLimitCloseRequested,
    initialUserMessageSent |-> initialUserMessageSent,
    shouldSendInitialOnConnect |-> shouldSendInitialOnConnect,
    twilioQueue |-> twilioQueue, greetingTimers |-> greetingTimers,
    voicemailDrainTimers |-> voicemailDrainTimers,
    timeLimitDrainTimers |-> timeLimitDrainTimers,
    upstreamSent |-> upstreamSent, twilioSent |-> twilioSent ]

Commit(st) ==
  /\ realtimeClient' = st.realtimeClient
  /\ serverSocket' = st.serverSocket
  /\ voicemailMode' = st.voicemailMode
  /\ callDirection' = st.callDirection
  /\ streamSid' = st.streamSid
  /\ latestMediaTimestamp' = st.latestMediaTimestamp
  /\ lastAssistantItem' = st.lastAssistantItem
  /\ markQueue' = st.markQueue
  /\ responseStartTimestampTwilio' = st.responseStartTimestampTwilio
  /\ speechDetected' = st.speechDetected
  /\ startEventProcessed' = st.startEventProcessed
  /\ voicemailCloseRequested' = st.voicemailCloseRequested
  /\ alreadyClosed' = st.alreadyClosed
  /\ greetingSent' = st.greetingSent
  /\ timeLimitTimer' = st.timeLimitTimer
  /\ timeLimitClosing' = st.timeLimitClosing
  /\ timeLimitCloseFallback' = st.timeLimitCloseFallback
  /\ timeLimitCloseRequested' = st.timeLimitCloseRequested
  /\ initialUserMessageSent' = st.initialUserMessageSent
  /\ shouldSendInitialOnConnect' = st.shouldSendInitialOnConnect
  /\ twilioQueue' = st.twilioQueue
  /\ greetingTimers' = st.greetingTimers
  /\ voicemailDrainTimers' = st.voicemailDrainTimers
  /\ timeLimitDrainTimers' = st.timeLimitDrainTimers
  /\ upstreamSent' = st.upstreamSent
  /\ twilioSent' = st.twilioSent

\* realtimeClient.isConnected()
isConnected(st) == st.realtimeClient = "connected"

\* serverSocket.close(code, reason): the first close wins, later calls throw and are caught.
socketClose(st, code, reason) ==
  IF st.serverSocket.state = "open"
    THEN [st EXCEPT !.serverSocket = [state |-> "closing", code |-> code, reason |-> reason]]
    ELSE st

\* realtimeClient.disconnect(): closes the upstream socket if there is one.
disconnect(st) ==
  IF isConnected(st) THEN [st EXCEPT !.realtimeClient = "disconnected"] ELSE st

\* realtime.send(type, event): throws unless connected; callers below test isConnected.
realtimeSend(st, ev) == [st EXCEPT !.upstreamSent = Append(@, ev)]

\* initializeSession (lines 315-332)
initializeSession(st) == realtimeSend(st, UpEvent("session.update", NULL, 0, NULL))

\* mutant of sendInitialConversationItem: the initialUserMessageSent guard is missing.
sendInitialConversationItemUnguarded(st) ==
  IF ~isConnected(st) THEN [st EXCEPT !.initialUserMessageSent = TRUE]
  ELSE [ realtimeSend(
           realtimeSend(st, UpEvent("conversation.item.create",
                                    buildInitialCallGreeting(st.voicemailMode, st.callDirection),
                                    0, NULL)),
           UpEvent("response.create", NULL, 0, NULL))
         EXCEPT !.initialUserMessageSent = TRUE, !.greetingSent = TRUE ]

\* sendInitialConversationItem (lines 334-370).  realtime.send throws when the
\* upstream socket is not connected: the flag stays set and nothing is sent.
sendInitialConversationItem(st) ==
  IF st.initialUserMessageSent THEN st
  ELSE IF ~isConnected(st) THEN [st EXCEPT !.initialUserMessageSent = TRUE]
  ELSE [ realtimeSend(
           realtimeSend(st, UpEvent("conversation.item.create",
                                    buildInitialCallGreeting(st.voicemailMode, st.callDirection),
                                    0, NULL)),
           UpEvent("response.create", NULL, 0, NULL))
         EXCEPT !.initialUserMessageSent = TRUE, !.greetingSent = TRUE ]

\* sendMark (lines 374-383); called only after a successful serverSocket.send.
sendMark(st) ==
  IF st.streamSid = NULL THEN st
  ELSE [st EXCEPT !.twilioSent = Append(@, TwEvent("mark", 0)),
                  !.markQueue = Append(@, "responsePart")]

\* mutant of finalizeVoicemailCloseIfDrained: the 1500 ms close is never armed.
finalizeVoicemailCloseIfDrainedNoTimer(st) == st

\* finalizeVoicemailCloseIfDrained (lines 241-258): arms the 1500 ms close.
finalizeVoicemailCloseIfDrained(st) ==
  IF ~st.voicemailCloseRequested \/ st.alreadyClosed THEN st
  ELSE IF Len(st.markQueue) = 0
    THEN [st EXCEPT !.voicemailDrainTimers = @ + 1]
    ELSE st

\* tryCloseVoicemailAfterDrain (lines 260-264)
tryCloseVoicemailAfterDrain(st) ==
  IF st.alreadyClosed THEN st
  ELSE finalizeVoicemailCloseIfDrained([st EXCEPT !.voicemailCloseRequested = TRUE])

\* finalizeTimeLimitCloseIfDrained (lines 266-286): arms the 1500 ms close.
finalizeTimeLimitCloseIfDrained(st) ==
  IF ~st.timeLimitCloseRequested \/ st.alreadyClosed THEN st
  ELSE IF Len(st.markQueue) = 0
    THEN [st EXCEPT !.timeLimitDrainTimers = @ + 1]
    ELSE st

\* tryCloseTimeLimitAfterDrain (lines 288-292)
tryCloseTimeLimitAfterDrain(st) ==
  IF st.alreadyClosed THEN st
  ELSE finalizeTimeLimitCloseIfDrained([st EXCEPT !.timeLimitCloseRequested = TRUE])

\* mutant of sendFinalAndClose: realtime.send goes out whatever the upstream state.
sendFinalAndCloseAnyState(st) ==
  IF st.timeLimitClosing THEN st
  ELSE [ realtimeSend(
           realtimeSend([st EXCEPT !.timeLimitClosing = TRUE],
                        UpEvent("conversation.item.create", "final_time_limit_message",
                                0, NULL)),
           UpEvent("response.create", NULL, 0, NULL))
         EXCEPT !.timeLimitCloseFallback = TRUE ]

\* sendFinalAndClose (lines 197-230)
sendFinalAndClose(st) ==
  IF st.timeLimitClosing THEN st
  ELSE LET a == [st EXCEPT !.timeLimitClosing = TRUE]
           b == IF isConnected(a)
                  THEN realtimeSend(
                         realtimeSend(a, UpEvent("conversation.item.create",
                                                 "final_time_limit_message", 0, NULL)),
                         UpEvent("response.create", NULL, 0, NULL))
                  ELSE a
       IN [b EXCEPT !.timeLimitCloseFallback = TRUE]

\* clearTimeout(timeLimitTimer) (lines 234, 666): the callback the handle names
\* is cancelled, if it is still pending.
clearTimeLimit(st) ==
  [st EXCEPT !.timeLimitTimer = IF @ > 0 THEN @ - 1 ELSE @]

\* mutant of scheduleTimeLimit: the timer already armed is not cancelled.
scheduleTimeLimitNoClear(st) == [st EXCEPT !.timeLimitTimer = @ + 1]

\* scheduleTimeLimit (lines 232-239): clear the pending timer, arm a new one.
scheduleTimeLimit(st) == [clearTimeLimit(st) EXCEPT !.timeLimitTimer = @ + 1]

\* `null` of responseStartTimestampTwilio (line 185)
NoTimestamp == -1

\* mutant of handleSpeechStartedEvent: the subtraction is the wrong way round.
handleSpeechStartedEventSwapped(st) ==
  IF Len(st.markQueue) > 0 /\ st.responseStartTimestampTwilio # NoTimestamp
    THEN LET elapsedTime == st.responseStartTimestampTwilio - st.latestMediaTimestamp
             a == IF st.lastAssistantItem # NULL
                    THEN realtimeSend(st, UpEvent("conversation.item.truncate", NULL,
                                                  elapsedTime, st.lastAssistantItem))
                    ELSE st
         IN IF a.serverSocket.state # "open" THEN a
            ELSE [a EXCEPT !.twilioSent = Append(@, TwEvent("clear", 0)),
                           !.markQueue = << >>,
                           !.lastAssistantItem = NULL,
                           !.responseStartTimestampTwilio = NoTimestamp]
    ELSE st

\* mutant of handleSpeechStartedEvent: the mark queue is not consulted.
handleSpeechStartedEventAnyQueue(st) ==
  IF st.responseStartTimestampTwilio # NoTimestamp
    THEN LET elapsedTime == st.latestMediaTimestamp - st.responseStartTimestampTwilio
             a == IF st.lastAssistantItem # NULL
                    THEN realtimeSend(st, UpEvent("conversation.item.truncate", NULL,
                                                  elapsedTime, st.lastAssistantItem))
                    ELSE st
         IN IF a.serverSocket.state # "open" THEN a
            ELSE [a EXCEPT !.twilioSent = Append(@, TwEvent("clear", 0)),
                           !.markQueue = << >>,
                           !.lastAssistantItem = NULL,
                           !.responseStartTimestampTwilio = NoTimestamp]
    ELSE st

\* handleSpeechStartedEvent (lines 385-410).  serverSocket.send throws on a socket
\* that is no longer open; the exception leaves the resets undone.
handleSpeechStartedEvent(st) ==
  IF Len(st.markQueue) > 0 /\ st.responseStartTimestampTwilio # NoTimestamp
    THEN LET elapsedTime == st.latestMediaTimestamp - st.responseStartTimestampTwilio
             a == IF st.lastAssistantItem # NULL
                    THEN realtimeSend(st, UpEvent("conversation.item.truncate", NULL,
                                                  elapsedTime, st.lastAssistantItem))
                    ELSE st
         IN IF a.serverSocket.state # "open" THEN a
            ELSE [a EXCEPT !.twilioSent = Append(@, TwEvent("clear", 0)),
                           !.markQueue = << >>,
                           !.lastAssistantItem = NULL,
                           !.responseStartTimestampTwilio = NoTimestamp]
    ELSE st

\* the response.audio.delta branch of the "server.*" listener (lines 416-433);
\* `n` numbers the chunk.
onAudioDelta(st, itemId, n) ==
  IF st.serverSocket.state # "open" THEN st          \* serverSocket.send throws
  ELSE LET a == [st EXCEPT !.twilioSent = Append(@, TwEvent("media", n))]
           b == IF a.responseStartTimestampTwilio = NoTimestamp
                   \/ a.responseStartTimestampTwilio = 0
                  THEN [a EXCEPT !.responseStartTimestampTwilio = a.latestMediaTimestamp]
                  ELSE a
           c == IF itemId # NULL THEN [b EXCEPT !.lastAssistantItem = itemId] ELSE b
       IN sendMark(c)

\* mutant of onSpeechStarted: voicemail mode does not suppress barge-in.
onSpeechStartedAlways(st) ==
  handleSpeechStartedEvent([st EXCEPT !.speechDetected = TRUE])

\* the speech_started branch of the "server.*" listener (lines 434-437)
onSpeechStarted(st) ==
  LET a == [st EXCEPT !.speechDetected = TRUE]
  IN IF ~a.voicemailMode THEN handleSpeechStartedEvent(a) ELSE a

\* the response.done branches of the "server.*" listener (lines 438-445)
onResponseDone(st) ==
  LET a == IF st.voicemailMode THEN tryCloseVoicemailAfterDrain(st) ELSE st
  IN IF a.timeLimitClosing THEN tryCloseTimeLimitAfterDrain(a) ELSE a

\* the customParameters loop of the start branch (lines 531-600); a missing key is NULL.
applyCustomParameters(st, amd, direction) ==
  LET a == IF amd # NULL THEN [st EXCEPT !.voicemailMode = amdIsMachine(amd)] ELSE st
  IN IF direction \in {"inbound", "outbound"}
       THEN [a EXCEPT !.callDirection = direction]
       ELSE a

\* mutant of onStart: the 50 ms dispatch is never armed, the greeting is left to
\* the completion of the connect.
onStartFlagOnly(st, sid, amd, direction) ==
  LET a == applyCustomParameters([st EXCEPT !.streamSid = sid], amd, direction)
      b == [a EXCEPT !.startEventProcessed = TRUE, !.shouldSendInitialOnConnect = TRUE]
  IN scheduleTimeLimit([b EXCEPT !.responseStartTimestampTwilio = NoTimestamp,
                                 !.latestMediaTimestamp = 0])

\* mutant of onStart: the media clock is reset, the playback anchor is kept.
onStartKeepsAnchor(st, sid, amd, direction) ==
  LET a == applyCustomParameters([st EXCEPT !.streamSid = sid], amd, direction)
      b == [a EXCEPT !.startEventProcessed = TRUE]
      c == IF isConnected(b)
             THEN [b EXCEPT !.greetingTimers = @ + 1]
             ELSE [b EXCEPT !.shouldSendInitialOnConnect = TRUE]
  IN scheduleTimeLimit([c EXCEPT !.latestMediaTimestamp = 0])

\* the start branch of the inbound "message" listener (lines 520-619)
onStart(st, sid, amd, direction) ==
  LET a == applyCustomParameters([st EXCEPT !.streamSid = sid], amd, direction)
      b == [a EXCEPT !.startEventProcessed = TRUE]
      c == IF isConnected(b)
             THEN [b EXCEPT !.greetingTimers = @ + 1]
             ELSE [b EXCEPT !.shouldSendInitialOnConnect = TRUE]
  IN scheduleTimeLimit([c EXCEPT !.responseStartTimestampTwilio = NoTimestamp,
                                 !.latestMediaTimestamp = 0])

\* the media branch of the inbound "message" listener (lines 504-519); `n` is the payload.
onMedia(st, timestamp, n) ==
  LET a == [st EXCEPT !.latestMediaTimestamp = timestamp]
  IN IF isConnected(a)
       THEN realtimeSend(a, UpEvent("input_audio_buffer.append", NULL, n, NULL))
       ELSE a

\* the mark branch of the inbound "message" listener (lines 620-628)
onMark(st) ==
  LET a == IF Len(st.markQueue) > 0 THEN [st EXCEPT !.markQueue = Tail(@)] ELSE st
  IN finalizeTimeLimitCloseIfDrained(finalizeVoicemailCloseIfDrained(a))

\* mutant of onStop: a stop frame hangs up, whenever it arrives.
onStopHangUp(st, tooEarly) == disconnect(socketClose(st, 1000, "stop"))

\* the stop case of the default branch (lines 637-651): `tooEarly` is
\* eventTime < 2000.  The ignored frame returns at line 647, the processed one
\* falls through to the break of line 652; neither touches the session.
onStop(st, tooEarly) ==
  IF tooEarly /\ ~st.greetingSent THEN st ELSE st

\* mutant of enqueueIfNotConnected: nothing is kept while the connect is pending.
enqueueNever(st, frame) == st

\* line 502: a parsed frame is kept while the upstream socket is not connected.
enqueueIfNotConnected(st, frame) ==
  IF ~isConnected(st) THEN [st EXCEPT !.twilioQueue = Append(@, frame)] ELSE st

\* the while loop of lines 695-711: queued media frames are appended upstream in order.
RECURSIVE twilioQueueFlush(_)
twilioQueueFlush(st) ==
  IF st.twilioQueue = << >> THEN st
  ELSE LET msg == Head(st.twilioQueue)
           a == [st EXCEPT !.twilioQueue = Tail(@)]
       IN twilioQueueFlush(
            IF msg.event = "media"
              THEN realtimeSend(a, UpEvent("input_audio_buffer.append", "queued", msg.n, NULL))
              ELSE a)

\* mutant of onConnected: the greeting is sent without waiting for the start event.
onConnectedGreetAlways(st) ==
  LET a == initializeSession([st EXCEPT !.realtimeClient = "connected"])
      b == [sendInitialConversationItem(a) EXCEPT !.shouldSendInitialOnConnect = FALSE]
  IN twilioQueueFlush(b)

\* mutant of onConnected: the queued frames are flushed before the session is configured.
onConnectedFlushFirst(st) ==
  LET a == twilioQueueFlush([st EXCEPT !.realtimeClient = "connected"])
      b == initializeSession(a)
  IN IF b.shouldSendInitialOnConnect
       THEN [sendInitialConversationItem(b) EXCEPT !.shouldSendInitialOnConnect = FALSE]
       ELSE b

\* the continuation of `await realtimeClient.connect()` (lines 681-711)
onConnected(st) ==
  LET a == initializeSession([st EXCEPT !.realtimeClient = "connected"])
      b == IF a.shouldSendInitialOnConnect
             THEN [sendInitialConversationItem(a) EXCEPT !.shouldSendInitialOnConnect = FALSE]
             ELSE a
  IN twilioQueueFlush(b)

\* The state after construction (lines 112-194 and 294-313): the URL hints are applied.
InitTwilioWith(amdParam, directionParam) ==
  /\ realtimeClient = "connecting"
  /\ serverSocket = [state |-> "open", code |-> 0, reason |-> ""]
  /\ voicemailMode = IF amdParam # "" THEN amdIsMachine(amdParam) ELSE FALSE
  /\ callDirection = IF directionParam \in {"inbound", "outbound"}
                       THEN directionParam ELSE "unknown"
  /\ streamSid = NULL
  /\ latestMediaTimestamp = 0
  /\ lastAssistantItem = NULL
  /\ markQueue = << >>
  /\ responseStartTimestampTwilio = NoTimestamp
  /\ speechDetected = FALSE
  /\ startEventProcessed = FALSE
  /\ voicemailCloseRequested = FALSE
  /\ alreadyClosed = FALSE
  /\ greetingSent = FALSE
  /\ timeLimitTimer = 0
  /\ timeLimitClosing = FALSE
  /\ timeLimitCloseFallback = FALSE
  /\ timeLimitCloseRequested = FALSE
  /\ initialUserMessageSent = FALSE
  /\ shouldSendInitialOnConnect = FALSE
  /\ twilioQueue = << >>
  /\ greetingTimers = 0
  /\ voicemailDrainTimers = 0
  /\ timeLimitDrainTimers = 0
  /\ upstreamSent = << >>
  /\ twilioSent = << >>
  /\ mediaReceived = 0
  /\ twilioEvents = 0
  /\ serverEvents = 0

InitTwilio ==
  \E amdParam \in UrlAmdParams, directionParam \in UrlDirectionParams :
    InitTwilioWith(amdParam, directionParam)

\* The telephony variables while only the client bridge is looked at.
IdleTwilio == InitTwilioWith("", "")

\* Frames are delivered to the "message" listener while the inbound socket is open.
inboundOpen == serverSocket.state = "open"

\* inbound "message" listener, media frame
TwilioMedia(maxTwilio) ==
  /\ inboundOpen
  /\ twilioEvents < maxTwilio
  /\ \E timestamp \in Timestamps :
       /\ timestamp >= latestMediaTimestamp
       /\ LET n == mediaReceived + 1 IN
            Commit(onMedia(enqueueIfNotConnected(State, TwEvent("media", n)), timestamp, n))
  /\ mediaReceived' = mediaReceived + 1
  /\ twilioEvents' = twilioEvents + 1
  /\ UNCHANGED serverEvents

\* inbound "message" listener, start frame
TwilioStart(maxTwilio) ==
  /\ inboundOpen
  /\ twilioEvents < maxTwilio
  /\ \E sid \in StreamSids, amd \in AmdValues \cup {NULL},
        direction \in DirectionValues \cup {NULL} :
       Commit(onStart(enqueueIfNotConnected(State, TwEvent("start", 0)), sid, amd, direction))
  /\ twilioEvents' = twilioEvents + 1
  /\ UNCHANGED << mediaReceived, serverEvents >>

\* inbound "message" listener, mark frame
TwilioMark(maxTwilio) ==
  /\ inboundOpen
  /\ twilioEvents < maxTwilio
  /\ Commit(onMark(enqueueIfNotConnected(State, TwEvent("mark", 0))))
  /\ twilioEvents' = twilioEvents + 1
  /\ UNCHANGED << mediaReceived, serverEvents >>

\* inbound "message" listener, default branch (lines 629-652): a "stop" frame
\* (like a "connected" frame) is logged; the early return of line 646 and the
\* break of line 651 leave the same state.
TwilioStop(maxTwilio) ==
  /\ inboundOpen
  /\ twilioEvents < maxTwilio
  /\ \E tooEarly \in BOOLEAN :
       Commit(onStop(enqueueIfNotConnected(State, TwEvent("stop", 0)), tooEarly))
  /\ twilioEvents' = twilioEvents + 1
  /\ UNCHANGED << mediaReceived, serverEvents >>

\* inbound "message" listener, a frame JSON.parse rejects (line 501, caught at 654)
TwilioMalformed ==
  /\ inboundOpen
  /\ UNCHANGED twilioVars

\* inbound "close" listener (lines 659-671)
TwilioSocketClose ==
  /\ serverSocket.state \in {"open", "closing"}
  /\ LET a == [State EXCEPT !.serverSocket =
                 [state |-> "closed",
                  code |-> IF @.state = "open" THEN 1000 ELSE @.code,
                  reason |-> @.reason]]
     IN Commit([clearTimeLimit(disconnect(a)) EXCEPT !.timeLimitCloseFallback = FALSE])
  /\ UNCHANGED countVars

\* connect() resolves (lines 681-711)
UpstreamConnected ==
  /\ realtimeClient = "connecting"
  /\ Commit(onConnected(State))
  /\ UNCHANGED countVars

\* mutant of onConnectFailed: the inbound socket is closed as a normal closure.
onConnectFailedNormalClosure(st) ==
  socketClose([st EXCEPT !.realtimeClient = "failed"], 1000, "")

\* the catch of the connect task (lines 712-717)
onConnectFailed(st) ==
  socketClose([st EXCEPT !.realtimeClient = "failed"], 1011, "Upstream connect failure")

\* connect() rejects (lines 712-717)
UpstreamConnectFailed ==
  /\ realtimeClient = "connecting"
  /\ Commit(onConnectFailed(State))
  /\ UNCHANGED countVars

\* realtime.on("close") (lines 486-494)
UpstreamClose ==
  /\ realtimeClient = "connected"
  /\ Commit(socketClose([State EXCEPT !.realtimeClient = "disconnected"], 1005, ""))
  /\ UNCHANGED countVars

\* realtime.on("server.*"), response.audio.delta with a non-empty delta
ServerAudioDelta(maxServer) ==
  /\ realtimeClient = "connected"
  /\ serverEvents < maxServer
  /\ \E itemId \in ItemIds : Commit(onAudioDelta(State, itemId, serverEvents + 1))
  /\ serverEvents' = serverEvents + 1
  /\ UNCHANGED << mediaReceived, twilioEvents >>

\* realtime.on("server.*"), input_audio_buffer.speech_started
ServerSpeechStarted(maxServer) ==
  /\ realtimeClient = "connected"
  /\ serverEvents < maxServer
  /\ Commit(onSpeechStarted(State))
  /\ serverEvents' = serverEvents + 1
  /\ UNCHANGED << mediaReceived, twilioEvents >>

\* realtime.on("server.*"), response.done
ServerResponseDone(maxServer) ==
  /\ realtimeClient = "connected"
  /\ serverEvents < maxServer
  /\ Commit(onResponseDone(State))
  /\ serverEvents' = serverEvents + 1
  /\ UNCHANGED << mediaReceived, twilioEvents >>

\* realtime.on("server.*"), any other event type: nothing but logging
ServerOther ==
  /\ realtimeClient = "connected"
  /\ UNCHANGED twilioVars

\* the callback of setTimeout(() => sendInitialConversationItem(), 50) (line 609)
GreetingTimerFires ==
  /\ greetingTimers > 0
  /\ Commit(sendInitialConversationItem([State EXCEPT !.greetingTimers = @ - 1]))
  /\ UNCHANGED countVars

\* the callback armed by scheduleTimeLimit (lines 235-237)
TimeLimitTimerFires ==
  /\ timeLimitTimer > 0
  /\ Commit(sendFinalAndClose([State EXCEPT !.timeLimitTimer = @ - 1]))
  /\ UNCHANGED countVars

\* the 20 s fallback armed by sendFinalAndClose (lines 221-228)
TimeLimitFallbackFires ==
  /\ timeLimitCloseFallback
  /\ Commit(disconnect(socketClose([State EXCEPT !.timeLimitCloseFallback = FALSE],
                                   1000, "time_limit")))
  /\ UNCHANGED countVars

\* the 1500 ms callback of finalizeVoicemailCloseIfDrained (lines 246-255)
VoicemailDrainTimerFires ==
  /\ voicemailDrainTimers > 0
  /\ LET a == [State EXCEPT !.voicemailDrainTimers = @ - 1]
     IN Commit(IF a.alreadyClosed THEN a
               ELSE disconnect(socketClose([a EXCEPT !.alreadyClosed = TRUE],
                                           1000, "voicemail_complete")))
  /\ UNCHANGED countVars

\* the 1500 ms callback of finalizeTimeLimitCloseIfDrained (lines 271-283)
TimeLimitDrainTimerFires ==
  /\ timeLimitDrainTimers > 0
  /\ LET a == [State EXCEPT !.timeLimitDrainTimers = @ - 1]
     IN Commit(IF a.alreadyClosed THEN a
               ELSE [disconnect(socketClose([a EXCEPT !.alreadyClosed = TRUE],
                                            1000, "time_limit"))
                     EXCEPT !.timeLimitCloseFallback = FALSE])
  /\ UNCHANGED countVars

\* One step of the telephony bridge, with at most maxTwilio inbound frames and
\* maxServer upstream events handled in a behaviour.
\* Nothing is on its way back from the telephony side.
IdlePeer == inFlightMarks = << >>

NextTwilioWithin(maxTwilio, maxServer) ==
  \/ TwilioMedia(maxTwilio) /\ UNCHANGED << clientVars, authVars, rateVars, peerVars >>
  \/ TwilioStart(maxTwilio) /\ UNCHANGED << clientVars, authVars, rateVars, peerVars >>
  \/ TwilioMark(maxTwilio) /\ UNCHANGED << clientVars, authVars, rateVars, peerVars >>
  \/ TwilioStop(maxTwilio) /\ UNCHANGED << clientVars, authVars, rateVars, peerVars >>
  \/ TwilioMalformed /\ UNCHANGED << clientVars, authVars, rateVars, peerVars >>
  \/ TwilioSocketClose /\ UNCHANGED << clientVars, authVars, rateVars, peerVars >>
  \/ UpstreamConnected /\ UNCHANGED << clientVars, authVars, rateVars, peerVars >>
  \/ UpstreamConnectFailed /\ UNCHANGED << clientVars, authVars, rateVars, peerVars >>
  \/ UpstreamClose /\ UNCHANGED << clientVars, authVars, rateVars, peerVars >>
  \/ ServerAudioDelta(maxServer) /\ UNCHANGED << clientVars, authVars, rateVars, peerVars >>
  \/ ServerSpeechStarted(maxServer) /\ UNCHANGED << clientVars, authVars, rateVars, peerVars >>
  \/ ServerResponseDone(maxServer) /\ UNCHANGED << clientVars, authVars, rateVars, peerVars >>
  \/ ServerOther /\ UNCHANGED << clientVars, authVars, rateVars, peerVars >>
  \/ GreetingTimerFires /\ UNCHANGED << clientVars, authVars, rateVars, peerVars >>
  \/ TimeLimitTimerFires /\ UNCHANGED << clientVars, authVars, rateVars, peerVars >>
  \/ TimeLimitFallbackFires /\ UNCHANGED << clientVars, authVars, rateVars, peerVars >>
  \/ VoicemailDrainTimerFires /\ UNCHANGED << clientVars, authVars, rateVars, peerVars >>
  \/ TimeLimitDrainTimerFires /\ UNCHANGED << clientVars, authVars, rateVars, peerVars >>

NextTwilio == NextTwilioWithin(MaxTwilioEvents, MaxServerEvents)

\* A telephony session; the client bridge of the same worker is idle.
InitSpecTwilio == InitTwilio /\ InitClient /\ IdleAuth /\ IdleRate /\ IdlePeer

SpecTwilio == InitSpecTwilio /\ [][NextTwilio]_vars

NextClient ==
  \/ ClientMessage /\ UNCHANGED << twilioVars, authVars, rateVars, peerVars >>
  \/ ClientConnectResolved /\ UNCHANGED << twilioVars, authVars, rateVars, peerVars >>
  \/ ClientConnectFailed /\ UNCHANGED << twilioVars, authVars, rateVars, peerVars >>
  \/ ClientServerEvent /\ UNCHANGED << twilioVars, authVars, rateVars, peerVars >>
  \/ ClientUpstreamClose /\ UNCHANGED << twilioVars, authVars, rateVars, peerVars >>
  \/ ClientSocketClose /\ UNCHANGED << twilioVars, authVars, rateVars, peerVars >>
  \/ endClientDueToTimeLimit /\ UNCHANGED << twilioVars, authVars, rateVars, peerVars >>

\* A client session; the telephony bridge of the same worker is idle.
InitSpecClient == InitClient /\ IdleTwilio /\ IdleAuth /\ IdleRate /\ IdlePeer

SpecClient == InitSpecClient /\ [][NextClient]_vars

NextAuth ==
  \/ ClockAdvances /\ UNCHANGED << clientVars, twilioVars, rateVars, peerVars >>
  \/ IssueToken /\ UNCHANGED << clientVars, twilioVars, rateVars, peerVars >>
  \/ PresentToken /\ UNCHANGED << clientVars, twilioVars, rateVars, peerVars >>
  \/ Validate /\ UNCHANGED << clientVars, twilioVars, rateVars, peerVars >>
  \/ ClientUpgrade /\ UNCHANGED << clientVars, twilioVars, rateVars, peerVars >>
  \/ TwilioUpgrade /\ UNCHANGED << clientVars, twilioVars, rateVars, peerVars >>

\* The token gate; no session exists yet.
InitSpecAuth == InitAuth /\ InitClient /\ IdleTwilio /\ IdleRate /\ IdlePeer

SpecAuth == InitSpecAuth /\ [][NextAuth]_vars

NextRate ==
  \/ RateClockAdvances /\ UNCHANGED << clientVars, twilioVars, authVars, peerVars >>
  \/ Consume /\ UNCHANGED << clientVars, twilioVars, authVars, peerVars >>
  \/ (\E r \in RequestIds : BucketRequest(r)) /\ UNCHANGED << clientVars, twilioVars, authVars, peerVars >>
  \/ (\E r \in RequestIds : BucketGet(r)) /\ UNCHANGED << clientVars, twilioVars, authVars, peerVars >>
  \/ (\E r \in RequestIds : BucketPut(r)) /\ UNCHANGED << clientVars, twilioVars, authVars, peerVars >>
  \/ (\E r \in RequestIds : BucketUnavailable(r)) /\ UNCHANGED << clientVars, twilioVars, authVars, peerVars >>

\* The limiter alone, with the in-memory strategy or with the object.
InitSpecRate == InitRate /\ InitClient /\ IdleTwilio /\ IdleAuth /\ IdlePeer

SpecRate == InitSpecRate /\ [][NextRate]_vars

NextFetch ==
  \/ RateClockAdvances /\ UNCHANGED << clientVars, twilioVars, authVars, peerVars >>
  \/ Fetch /\ UNCHANGED << clientVars, twilioVars, authVars, peerVars >>

\* The entry dispatcher with its per-address bucket.
InitSpecFetch == InitRate /\ InitClient /\ IdleTwilio /\ IdleAuth /\ IdlePeer

SpecFetch == InitSpecFetch /\ [][NextFetch]_vars

NextPrune ==
  \/ RateClockAdvances /\ UNCHANGED << clientVars, twilioVars, authVars, peerVars >>
  \/ FiveMinutesPass /\ UNCHANGED << clientVars, twilioVars, authVars, peerVars >>
  \/ ConsumeKey /\ UNCHANGED << clientVars, twilioVars, authVars, peerVars >>

\* The in-memory limiter with two keys and idle periods.
InitSpecPrune ==
  InitRate /\ RATE_LIMITER = FALSE /\ InitClient /\ IdleTwilio /\ IdleAuth /\ IdlePeer

SpecPrune == InitSpecPrune /\ [][NextPrune]_vars

NextPair ==
  \/ RateClockAdvances /\ UNCHANGED << clientVars, twilioVars, authVars, peerVars >>
  \/ ConsumeBoth /\ UNCHANGED << clientVars, twilioVars, authVars, peerVars >>

\* The two bucket implementations side by side, fed the same calls.
InitSpecPair == InitRate /\ InitClient /\ IdleTwilio /\ IdleAuth /\ IdlePeer

SpecPair == InitSpecPair /\ [][NextPair]_vars

MarkMaxTwilioEvents == 2
MarkMaxServerEvents == 3

IsMarkFrame(fr) == fr.event = "mark"
IsClearFrame(fr) == fr.event = "clear"

\* The telephony side takes the frames the bridge sent in this step: a mark is
\* held until it is echoed, and a clear says that the audio of every mark held
\* so far is discarded.
PeerReceives ==
  LET new == SubSeq(twilioSent', Len(twilioSent) + 1, Len(twilioSent'))
      held == IF SelectSeq(new, IsClearFrame) # << >>
                THEN [i \in DOMAIN inFlightMarks |-> "cleared"]
                ELSE inFlightMarks
  IN inFlightMarks' = held \o [i \in 1 .. Len(SelectSeq(new, IsMarkFrame)) |-> "buffered"]

\* The telephony side echoes the oldest mark it holds, and the inbound
\* "message" listener handles the echo.
PeerEchoes(maxTwilio) ==
  /\ inFlightMarks # << >>
  /\ TwilioMark(maxTwilio)
  /\ inFlightMarks' = Tail(inFlightMarks)

\* A session up to its first timer, with a telephony side that echoes each
\* mark once and in order.
NextMarks ==
  \/ UpstreamConnected /\ PeerReceives /\ UNCHANGED << clientVars, authVars, rateVars >>
  \/ TwilioStart(MarkMaxTwilioEvents) /\ PeerReceives /\ UNCHANGED << clientVars, authVars, rateVars >>
  \/ TwilioMedia(MarkMaxTwilioEvents) /\ PeerReceives /\ UNCHANGED << clientVars, authVars, rateVars >>
  \/ PeerEchoes(MarkMaxTwilioEvents) /\ UNCHANGED << clientVars, authVars, rateVars >>
  \/ ServerAudioDelta(MarkMaxServerEvents) /\ PeerReceives /\ UNCHANGED << clientVars, authVars, rateVars >>
  \/ ServerSpeechStarted(MarkMaxServerEvents) /\ PeerReceives /\ UNCHANGED << clientVars, authVars, rateVars >>

InitSpecMarks == InitTwilio /\ InitClient /\ IdleAuth /\ IdleRate /\ IdlePeer

SpecMarks == InitSpecMarks /\ [][NextMarks]_vars

\* Bounds of the model under fairness (not program constants).
LiveMaxTwilioEvents == 1
LiveMaxServerEvents == 2

NextLive == NextTwilioWithin(LiveMaxTwilioEvents, LiveMaxServerEvents)

\* The event loop runs every callback whose timer has expired: an armed timer
\* that stays armed eventually fires.  LiveGreeting assumes this of the 50 ms
\* greeting timer only, so that a session may stay open for ever.  LiveTwilio
\* assumes it of every timer, and that the "close" event of a socket the bridge
\* has closed is eventually delivered.
LiveGreeting ==
  /\ InitSpecTwilio
  /\ [][NextLive]_vars
  /\ WF_vars(GreetingTimerFires /\ UNCHANGED << clientVars, authVars, rateVars, peerVars >>)

LiveTwilio ==
  /\ InitSpecTwilio
  /\ [][NextLive]_vars
  /\ WF_vars(GreetingTimerFires /\ UNCHANGED << clientVars, authVars, rateVars, peerVars >>)
  /\ WF_vars(TimeLimitTimerFires /\ UNCHANGED << clientVars, authVars, rateVars, peerVars >>)
  /\ WF_vars(TimeLimitFallbackFires /\ UNCHANGED << clientVars, authVars, rateVars, peerVars >>)
  /\ WF_vars(VoicemailDrainTimerFires /\ UNCHANGED << clientVars, authVars, rateVars, peerVars >>)
  /\ WF_vars(TimeLimitDrainTimerFires /\ UNCHANGED << clientVars, authVars, rateVars, peerVars >>)
  /\ WF_vars(serverSocket.state = "closing" /\ TwilioSocketClose /\ UNCHANGED << clientVars, authVars, rateVars, peerVars >>)


\* ---------------------------------------------------------------------
\* helpers for the statements below
WellFormed(d) == d.ok
FrameId(seq) == [i \in 1..Len(seq) |-> seq[i].id]
IsPrefix(s, t) == Len(s) <= Len(t) /\ SubSeq(t, 1, Len(s)) = s

\* C1: in the client bridge every event envelope received from the client
\* while the session is open is forwarded upstream exactly once and in
\* arrival order: while the connect is pending nothing is sent and the queue
\* holds every frame in arrival order; once connected the upstream log is
\* exactly the arrival sequence of the envelopes; at no time is an envelope
\* sent twice or ahead of an earlier one.  (Frames that do not parse are the
\* case of the malformed-message rule and are not forwarded.)
C1_ClientOrder ==
  /\ IsPrefix(c_upstreamSent, FrameId(SelectSeq(c_arrived, WellFormed)))
  /\ (c_serverSocket.state # "closed" /\ c_upstream = "connecting")
       => (c_upstreamSent = << >> /\ messageQueue = c_arrived)
  /\ (c_serverSocket.state # "closed" /\ c_upstream = "connected")
       => (messageQueue = << >>
           /\ c_upstreamSent = FrameId(SelectSeq(c_arrived, WellFormed)))

\* C1 witness: two envelopes were queued before the connect, one arrived after
\* it, and all three are on the upstream socket.
C1_Witness ==
  /\ c_upstream = "connected"
  /\ c_upstreamSent = << 1, 2, 3 >>

\* ---------------------------------------------------------------------
\* observations of the telephony bridge's traffic
IsGreetingItem(ev) == ev.type = "conversation.item.create" /\ ev.text \in GreetingTexts
IsAppend(ev) == ev.type = "input_audio_buffer.append"
IsTruncate(ev) == ev.type = "conversation.item.truncate"
IsMediaFrame(fr) == fr.event = "media"
GreetingIndexes(log) == {i \in DOMAIN log : IsGreetingItem(log[i])}
GreetingCount(log) == Cardinality(GreetingIndexes(log))
EventN(seq) == [i \in 1..Len(seq) |-> seq[i].n]
AudioOut(log) == EventN(SelectSeq(log, IsAppend))
UpTo(n) == [i \in 1..n |-> i]
sessionOpen == realtimeClient = "connected" /\ serverSocket.state = "open"

\* C2: in a telephony session the greeting (one synthetic user item followed by
\* one generate-response request) is sent upstream at most once, whatever the
\* interleaving of start frames, the completion of the connect and the 50 ms
\* dispatch timers.
C2_GreetingAtMostOnce ==
  /\ GreetingCount(upstreamSent) <= 1
  /\ \A i \in GreetingIndexes(upstreamSent) :
       /\ i + 1 <= Len(upstreamSent)
       /\ upstreamSent[i + 1].type = "response.create"

\* C2 witness: the greeting is on the upstream socket and a further dispatch,
\* armed by another start frame, is still pending.
C2_Witness ==
  /\ GreetingCount(upstreamSent) = 1
  /\ greetingTimers > 0
  /\ realtimeClient = "connected"

\* C3: the greeting is never on the upstream socket before the upstream
\* connection has been established and a start frame has been processed.
C3_GreetingAfterBoth ==
  GreetingCount(upstreamSent) > 0
    => (startEventProcessed /\ realtimeClient \in {"connected", "disconnected"})

\* C3 witness: the start frame came first, the connect completed later and sent
\* the greeting (the flag of line 611 has been consumed).
C3_Witness ==
  /\ GreetingCount(upstreamSent) = 1
  /\ startEventProcessed
  /\ greetingTimers = 0
  /\ realtimeClient = "connected"

\* C4: the inbound socket is closed with the reason voicemail_complete only
\* while the mark FIFO is empty.
C4_VoicemailCloseDrained ==
  [][ (serverSocket.state = "open" /\ serverSocket'.state = "closing"
       /\ serverSocket'.reason = "voicemail_complete")
        => Len(markQueue) = 0 ]_vars

\* C5: in voicemail mode a speech_started event sends nothing upstream and
\* nothing to the inbound socket, and leaves the mark FIFO, the last assistant
\* item and the playback anchor as they were.
C5_VoicemailNoBargeIn ==
  [][ (voicemailMode /\ ServerSpeechStarted(MaxServerEvents))
        => UNCHANGED << upstreamSent, twilioSent, markQueue, lastAssistantItem,
                        responseStartTimestampTwilio >> ]_vars

\* C5 witness: speech was signalled in voicemail mode while assistant audio was
\* unacknowledged, and the FIFO, item and anchor are still there.
C5_Witness ==
  /\ voicemailMode
  /\ speechDetected
  /\ Len(markQueue) > 0
  /\ lastAssistantItem # NULL
  /\ responseStartTimestampTwilio # NoTimestamp
  /\ \A i \in DOMAIN upstreamSent : ~IsTruncate(upstreamSent[i])

\* C6: a truncate event put on the upstream socket carries audio_end_ms equal to
\* the latest caller media timestamp minus the playback anchor (1350 - 1000 = 350).
C6_TruncateArithmetic ==
  [][ (Len(upstreamSent') = Len(upstreamSent) + 1
       /\ IsTruncate(upstreamSent'[Len(upstreamSent')]))
        => /\ responseStartTimestampTwilio # NoTimestamp
           /\ upstreamSent'[Len(upstreamSent')].n
                = latestMediaTimestamp - responseStartTimestampTwilio
           /\ (responseStartTimestampTwilio = 1000 /\ latestMediaTimestamp = 1350)
                => upstreamSent'[Len(upstreamSent')].n = 350 ]_vars

\* C6 witness: a barge-in was processed with anchor 1000 at timestamp 1350.
C6_Witness ==
  /\ latestMediaTimestamp = 1350
  /\ \E i \in DOMAIN upstreamSent : IsTruncate(upstreamSent[i]) /\ upstreamSent[i].n = 350

\* C7: caller audio received before the upstream connection is established is
\* kept in arrival order, put on the upstream socket exactly once when the
\* connection is established, and ahead of every later payload: the payloads on
\* the upstream socket are always 1, 2, 3, ... without gap or repetition, none
\* while the connect is pending and all of them once connected.
C7_AudioBuffered ==
  /\ AudioOut(upstreamSent) = UpTo(Len(AudioOut(upstreamSent)))
  /\ realtimeClient = "connecting"
       => /\ AudioOut(upstreamSent) = << >>
          /\ EventN(SelectSeq(twilioQueue, IsMediaFrame)) = UpTo(mediaReceived)
  /\ realtimeClient = "connected"
       => AudioOut(upstreamSent) = UpTo(mediaReceived)

\* C7 witness: two payloads were flushed from the queue and a third followed live.
C7_Witness ==
  /\ realtimeClient = "connected"
  /\ LET audio == SelectSeq(upstreamSent, IsAppend) IN
       /\ Len(audio) = 3
       /\ audio[1].text = "queued" /\ audio[2].text = "queued" /\ audio[3].text = NULL

\* C8: once a start frame has been processed and the upstream connection is
\* established, the greeting is eventually on the upstream socket, unless the
\* session does not stay open.
C8_GreetingEventually ==
  (startEventProcessed /\ realtimeClient = "connected")
    ~> (GreetingCount(upstreamSent) = 1 \/ ~sessionOpen)

\* C8 witness: the connect completed first, the start frame armed the 50 ms
\* timer, and the greeting went out while the session was open.
C8_Witness ==
  /\ sessionOpen
  /\ startEventProcessed
  /\ GreetingCount(upstreamSent) = 1
  /\ upstreamSent[1].type = "session.update"
  /\ ~IsGreetingItem(upstreamSent[2])

\* C9: the greeting text put on the upstream socket is the one selected by
\* (voicemailMode, callDirection) as they are when it is dispatched: the
\* voicemail script whenever voicemailMode holds, else the opener of the direction.
C9_GreetingMatrix ==
  [][ GreetingCount(upstreamSent') > GreetingCount(upstreamSent)
        => \A i \in GreetingIndexes(upstreamSent') :
             /\ voicemailMode => upstreamSent'[i].text = "voicemail_script"
             /\ (~voicemailMode /\ callDirection = "inbound")
                  => upstreamSent'[i].text = "inbound_opener"
             /\ (~voicemailMode /\ callDirection = "outbound")
                  => upstreamSent'[i].text = "outbound_opener"
             /\ (~voicemailMode /\ callDirection = "unknown")
                  => upstreamSent'[i].text = "generic_opener" ]_vars

\* C9 witness: the voicemail script was dispatched on an inbound call.
C9_Witness ==
  /\ voicemailMode /\ callDirection = "inbound"
  /\ \E i \in DOMAIN upstreamSent : upstreamSent[i].text = "voicemail_script"

\* C10: in voicemail mode, once response.done has been handled, the inbound
\* socket is eventually closed and the upstream socket disconnected, whether or
\* not another mark frame arrives.
C10_VoicemailEventuallyClosed ==
  voicemailCloseRequested
    ~> (serverSocket.state # "open" /\ realtimeClient # "connected")

\* C10 witness: response.done was handled in voicemail mode with a mark
\* outstanding, no mark frame followed, and the session is closed.
C10_Witness ==
  /\ voicemailCloseRequested
  /\ Len(markQueue) > 0
  /\ serverSocket.state # "open"
  /\ realtimeClient # "connected"


\* ---------------------------------------------------------------------
\* the hard call-duration limit, the stop frame and the teardown
closesWith(reason) ==
  /\ serverSocket.state = "open"
  /\ serverSocket'.state = "closing"
  /\ serverSocket'.reason = reason
sessionVarsButQueue ==
  << realtimeClient, serverSocket, voicemailMode, callDirection, streamSid,
     latestMediaTimestamp, lastAssistantItem, markQueue,
     responseStartTimestampTwilio, speechDetected, startEventProcessed,
     voicemailCloseRequested, alreadyClosed, greetingSent, timeLimitClosing,
     timeLimitCloseRequested, initialUserMessageSent, shouldSendInitialOnConnect,
     timerVars, ioVars >>

\* C11: after the hard call-duration timer has fired, the inbound socket is
\* closed with the reason time_limit by anything but the 20 s fallback only
\* when response.done has been handled since and the mark FIFO is empty.
C11_TimeLimitCloseDrained ==
  [][ (closesWith("time_limit") /\ timeLimitDrainTimers' = timeLimitDrainTimers - 1)
        => (timeLimitCloseRequested /\ Len(markQueue) = 0) ]_vars

\* C12: once the hard call-duration timer has fired, the inbound socket is
\* eventually closed and the upstream socket disconnected, whether or not
\* upstream reports response.done and whether or not marks are acknowledged.
C12_TimeLimitEventuallyClosed ==
  timeLimitClosing ~> (serverSocket.state # "open" /\ realtimeClient # "connected")

\* C13: once the inbound socket is closed, no timer of the session is armed.
C13_NoTimerAfterClose ==
  serverSocket.state = "closed"
    => /\ timeLimitTimer = 0 /\ ~timeLimitCloseFallback
       /\ voicemailDrainTimers = 0 /\ timeLimitDrainTimers = 0
       /\ greetingTimers = 0

C15_StopHonored ==
  [][ (TwilioStop(MaxTwilioEvents) /\ greetingSent)
        => (serverSocket'.state # "open" /\ realtimeClient' # "connected") ]_vars

\* C16: once the inbound socket is closed the upstream socket is not connected.
C16_UpstreamGoneAfterClose ==
  serverSocket.state = "closed" => realtimeClient # "connected"


\* ---------------------------------------------------------------------
\* the token gate
ContextOf(bridge) == IF bridge = "client" THEN "client" ELSE "twilio"

\* C17: a token issued for one context tag is rejected for every other tag.
C17_CrossContextRejected ==
  (validated.done /\ validated.token.issued /\ validated.token.origin # validated.tag)
    => validated.result = "false"

\* C17 witness: a client token, fresh and otherwise acceptable, was presented
\* to the telephony check and rejected.
C17_Witness ==
  /\ validated.done /\ validated.token.issued
  /\ validated.token.origin = "client" /\ validated.tag = "twilio"
  /\ validated.at = validated.token.iat
  /\ validated.result = "false"
  /\ validateAuth(getAuthToken(validated.token), ENCRYPTION_KEY, "client", validated.at)
       = "true"

\* C18: a token validated for the tag it was issued for, by a validator whose
\* clock is not behind the issuer's, is accepted at the time of issue and up to
\* exp = iat + ttl, and rejected once more than ttl has passed.
C18_LifetimeRoundTrip ==
  (validated.done /\ validated.token.issued /\ validated.token.origin = validated.tag
     /\ validated.token.iat <= validated.at)
    => /\ validated.token.exp = validated.token.iat + TokenTtlMs
       /\ validated.at <= validated.token.exp => validated.result = "true"
       /\ validated.at > validated.token.exp => validated.result = "false"

\* C18 witness: a token was rejected because its lifetime had passed, by a
\* check that would have accepted it at the time of issue.
C18_Witness ==
  /\ validated.done /\ validated.token.issued
  /\ validated.token.origin = validated.tag
  /\ validated.at > validated.token.iat + TokenTtlMs
  /\ validated.result = "false"
  /\ validateAuth(getAuthToken(validated.token), ENCRYPTION_KEY, validated.tag,
                  validated.token.iat) = "true"

\* C19: validateAuth returns a boolean for every input, and false when the
\* token is missing, the key is missing, or the token cannot be decoded,
\* decrypted or parsed.
C19_NeverThrows ==
  validated.done
    => /\ validated.result \in {"true", "false"}
       /\ ( \/ getAuthToken(validated.token) = NoToken
            \/ ENCRYPTION_KEY # "k1"
            \/ base64UrlToBytesThrows(validated.token)
            \/ decryptAesGcmThrows(validated.token, ENCRYPTION_KEY)
            \/ decodeThrows(validated.token) )
            => validated.result = "false"

\* C19 witness: a text sealed under the right key that is not JSON was rejected.
C19_Witness ==
  /\ validated.done
  /\ ENCRYPTION_KEY = "k1"
  /\ validated.token.form = "text" /\ validated.token.key = "k1"
  /\ validated.token.plain = "nojson"
  /\ validated.result = "false"

\* C20: an upgrade request whose token fails validation creates no upstream
\* client; the client bridge answers 401 and accepts no socket, the telephony
\* bridge accepts the socket and closes it at once with code 1008.
C20_NoUpstreamWithoutToken ==
  (upgraded.done
     /\ validateAuth(getAuthToken(upgraded.token), ENCRYPTION_KEY,
                     ContextOf(upgraded.bridge), upgraded.at) = "false")
    => /\ ~upgraded.upstream
       /\ upgraded.bridge = "client" => (upgraded.status = 401 /\ ~upgraded.accepted)
       /\ upgraded.bridge = "twilio"
            => (upgraded.accepted /\ upgraded.closeCode = 1008 /\ upgraded.closeCode # 1000)

\* C20 witness: a telephony token, valid for the telephony bridge, was refused
\* by the client bridge before the upgrade.
C20_Witness ==
  /\ upgraded.done /\ upgraded.bridge = "client"
  /\ OPENAI_API_KEY
  /\ upgraded.token.issued /\ upgraded.token.origin = "twilio"
  /\ validateAuth(getAuthToken(upgraded.token), ENCRYPTION_KEY, "twilio", upgraded.at)
       = "true"
  /\ upgraded.status = 401 /\ ~upgraded.accepted /\ ~upgraded.upstream

\* ---------------------------------------------------------------------
\* Rate limiter and dispatcher claims
\* ---------------------------------------------------------------------

IsBridge(status) == status \in {"createRealtimeClient", "createTwilioRealtimeBridge"}

\* C21: a session bridge, client or telephony, is constructed only for an
\* upgrade request that passed the rate-limit check: every response of fetch
\* that is a bridge comes from a request the limiter was asked about and
\* admitted.
C21_BridgeOnlyAfterRateLimit ==
  \A i \in 1 .. Len(responses) :
    IsBridge(responses[i].status) => responses[i].limited /\ responses[i].allowed

\* The calls on the key made at the instant of the first one.
Immediate(i) == \A j \in 1 .. i : consumed[j].at = consumed[1].at

\* C22: on a fresh key exactly `capacity` consecutive immediate calls are
\* admitted and the next one is rejected; a call made at least intervalMs
\* after the one before it is admitted; the first use leaves capacity - 1
\* tokens.
C22_BurstThenReject ==
  /\ \A i \in 1 .. Len(consumed) :
       /\ Immediate(i) => (consumed[i].allowed <=> i <= capacity)
       /\ (i > 1 /\ consumed[i].at - consumed[i - 1].at >= intervalMs)
            => consumed[i].allowed
  /\ Len(consumed) = 1 => buckets[RateKey].tokens = (capacity - 1) * OneToken

C22_Witness ==
  /\ Len(consumed) = capacity + 2
  /\ Immediate(capacity + 1)
  /\ ~ consumed[capacity + 1].allowed
  /\ consumed[capacity + 2].at - consumed[capacity + 1].at >= intervalMs
  /\ consumed[capacity + 2].allowed

RECURSIVE OneAtATime(_, _, _)
\* The answers the object gives when the requests of log[i..] are served one
\* after the other, each from the bucket the one before it left.
OneAtATime(log, i, stored) ==
  IF i > Len(log)
  THEN << >>
  ELSE LET out == bucketConsume(stored, capacity, intervalMs, log[i].now)
       IN << [now |-> log[i].now, allowed |-> out.allowed,
              retryAfterMs |-> out.retryAfterMs] >>
          \o OneAtATime(log, i + 1, MapSet(stored, "bucket", out.bucket))

AdmittedAt(t) == { i \in 1 .. Len(answered) : answered[i].now = t /\ answered[i].allowed }

\* C23: through the object, concurrent calls on one key are answered as if
\* they were served one at a time, and the calls admitted at one reading of
\* the clock never outnumber the capacity.
C23_Serialised ==
  /\ answered = OneAtATime(answered, 1, EmptyMap)
  /\ \A t \in 0 .. MaxRateClock : Cardinality(AdmittedAt(t)) <= capacity

C23_Witness ==
  /\ \A r \in RequestIds : requests[r].res = "ok"
  /\ \A r \in RequestIds : requests[r].now = 0
  /\ Len(answered) = MaxBucketRequests
  /\ Cardinality(AdmittedAt(0)) = capacity
  /\ capacity < MaxBucketRequests

BucketInRange(bucket) ==
  /\ 0 <= bucket.tokens
  /\ bucket.tokens <= bucket.capacity * OneToken

\* C24: a stored bucket, in the map of the in-memory strategy or in the
\* storage of the object, always has 0 <= tokens <= capacity.
C24_TokensInRange ==
  /\ \A k \in DOMAIN buckets : BucketInRange(buckets[k])
  /\ \A k \in DOMAIN storage : BucketInRange(storage[k])

C24_Witness ==
  /\ "bucket" \in DOMAIN storage
  /\ storage["bucket"].tokens = storage["bucket"].capacity * OneToken - OneToken
  /\ storage["bucket"].lastRefill >= intervalMs
  /\ Len(answered) > 1

\* C25: a rejected call returns retryAfterMs > 0, and the next call on the
\* key, made exactly that much later, is admitted or returns a smaller
\* retryAfterMs.
C25_RetryAfter ==
  \A i \in 1 .. Len(consumed) :
    ~ consumed[i].allowed =>
      /\ consumed[i].retryAfterMs > 0
      /\ (i < Len(consumed)
          /\ consumed[i + 1].at = consumed[i].at + consumed[i].retryAfterMs)
           => \/ consumed[i + 1].allowed
              \/ consumed[i + 1].retryAfterMs < consumed[i].retryAfterMs

C25_Witness ==
  \E i \in 1 .. Len(consumed) - 1 :
    /\ ~ consumed[i].allowed
    /\ consumed[i].retryAfterMs > 1
    /\ consumed[i + 1].at = consumed[i].at + consumed[i].retryAfterMs
    /\ consumed[i + 1].allowed

\* C26: when the object cannot be reached or answers with an error, the call
\* returns allowed = true to its caller; it neither rejects nor fails.
C26_FailOpen ==
  \A r \in RequestIds :
    (requests[r].pc = "done" /\ requests[r].res \in {"rejected", "not-ok"})
      => ~ requests[r].result.threw /\ requests[r].result.allowed

\* ---------------------------------------------------------------------
\* Mark FIFO, malformed messages, client time limit
\* ---------------------------------------------------------------------

Buffered(marks) == { i \in DOMAIN marks : marks[i] = "buffered" }

\* C27: at every point of a telephony session the length of the mark FIFO
\* equals the number of assistant audio chunks sent to the telephony socket
\* and not yet acknowledged: the marks that are out, not echoed yet, and not
\* discarded by a clear.
C27_MarkQueueCountsUnacknowledged ==
  Len(markQueue) = Cardinality(Buffered(inFlightMarks))

\* C28: each assistant audio chunk is forwarded to the telephony socket
\* exactly once as a media event, immediately followed by exactly one mark
\* event: in what the bridge has sent, no chunk appears twice, every media
\* frame has a mark frame right behind it, and every mark frame a media frame
\* right before it.
C28_ChunkThenMark ==
  /\ \A i, j \in DOMAIN twilioSent :
       (IsMediaFrame(twilioSent[i]) /\ IsMediaFrame(twilioSent[j])
        /\ twilioSent[i].n = twilioSent[j].n) => i = j
  /\ \A i \in DOMAIN twilioSent :
       /\ IsMediaFrame(twilioSent[i])
            => (i < Len(twilioSent) /\ IsMarkFrame(twilioSent[i + 1]))
       /\ IsMarkFrame(twilioSent[i])
            => (i > 1 /\ IsMediaFrame(twilioSent[i - 1]))

\* A frame arrives on the client socket in this step, and it does not parse.
MalformedArrives ==
  /\ Len(c_arrived') = Len(c_arrived) + 1
  /\ ~ WellFormed(c_arrived'[Len(c_arrived')])

\* A frame arrives on the client socket in this step, and it parses.
EnvelopeArrives ==
  /\ Len(c_arrived') = Len(c_arrived) + 1
  /\ WellFormed(c_arrived'[Len(c_arrived')])

C30_TimeLimitClosesBoth ==
  c_serverSocket.code = 4000
    => /\ c_serverSocket.state \in {"closing", "closed"}
       /\ c_clientSent # << >>
       /\ c_clientSent[Len(c_clientSent)] = "system.time_limit"
       /\ c_upstream # "connected"

\* ---------------------------------------------------------------------
\* Start parameters, upstream sends, connect failure, playback anchor
\* ---------------------------------------------------------------------

\* The inbound "message" listener handles a start frame that carries these
\* custom parameters.
StartCarries(sid, amd, direction) ==
  /\ inboundOpen
  /\ Commit(onStart(enqueueIfNotConnected(State, TwEvent("start", 0)), sid, amd, direction))

\* C31: after a start frame has been processed, voicemailMode and
\* callDirection are the values its custom parameters carry, whatever the
\* connection URL said; a direction other than inbound or outbound gives
\* unknown.
C31_StartParametersWin ==
  [][\A sid \in StreamSids, amd \in AmdValues, direction \in DirectionValues :
       StartCarries(sid, amd, direction)
         => /\ voicemailMode' = amdIsMachine(amd)
            /\ callDirection' = IF direction \in {"inbound", "outbound"}
                                  THEN direction ELSE "unknown"]_vars

C33_ConnectFailureCloses ==
  [][/\ (realtimeClient # "failed" /\ realtimeClient' = "failed")
          => /\ realtimeClient = "connecting"
             /\ serverSocket.state = "open"
                  => (serverSocket'.state = "closing" /\ serverSocket'.code = 1011)
             /\ serverSocket.state # "open" => serverSocket' = serverSocket
     /\ realtimeClient = "failed"
          => (realtimeClient' = "failed" /\ serverSocket'.state # "open"
              /\ upstreamSent' = upstreamSent)]_vars

\* C33 witness: the connect failed on an open session, and the peer has
\* acknowledged the close with code 1011.
C33_Witness ==
  /\ realtimeClient = "failed"
  /\ serverSocket.state = "closed"
  /\ serverSocket.code = 1011
  /\ startEventProcessed

\* An assistant audio chunk is put on the telephony socket in this step.
ChunkForwarded ==
  /\ Len(twilioSent') > Len(twilioSent)
  /\ IsMediaFrame(twilioSent'[Len(twilioSent) + 1])

\* C34: the first audio chunk after the playback anchor was cleared sets the
\* anchor to the latest caller media timestamp of that moment, and a later
\* chunk of the same turn leaves the anchor as it is.
C34_AnchorLatchedOnce ==
  [][ChunkForwarded
       => IF responseStartTimestampTwilio = NoTimestamp
            THEN responseStartTimestampTwilio' = latestMediaTimestamp
            ELSE responseStartTimestampTwilio' = responseStartTimestampTwilio]_vars

\* A speech_started event is handled in this step while the mark queue is empty.
SpeechStartedOnEmptyQueue ==
  /\ markQueue = << >>
  /\ ServerSpeechStarted(MaxServerEvents)

sessionVarsButSpeechDetected ==
  << voicemailMode, callDirection, streamSid, latestMediaTimestamp,
     lastAssistantItem, markQueue, responseStartTimestampTwilio,
     startEventProcessed, voicemailCloseRequested,
     alreadyClosed, greetingSent, timeLimitClosing, timeLimitCloseRequested,
     initialUserMessageSent, shouldSendInitialOnConnect, twilioQueue >>

\* C35: a speech_started event handled while the mark queue is empty sends no
\* truncate event upstream and no clear event to the caller, and leaves the
\* session state, the timers and both sockets as they are, except that the
\* speechDetected flag is raised.
C35_EmptyQueueOnlyRaisesSpeechDetected ==
  [][SpeechStartedOnEmptyQueue
       => /\ UNCHANGED << sessionVarsButSpeechDetected, timerVars, ioVars >>
          /\ speechDetected']_vars

\* C35 as stated: the event changes no session state at all.
C35_EmptyQueueChangesNothing ==
  [][SpeechStartedOnEmptyQueue
       => UNCHANGED << sessionVars, timerVars, ioVars >>]_vars

\* An assistant chunk was played out and acknowledged, and caller speech was
\* signalled with the mark queue empty: the item and the anchor are still set.
C35_Witness ==
  /\ speechDetected
  /\ ~ voicemailMode
  /\ markQueue = << >>
  /\ lastAssistantItem # NULL
  /\ responseStartTimestampTwilio # NoTimestamp
  /\ \E i \in 1..Len(twilioSent) : IsMediaFrame(twilioSent[i])
  /\ \A i \in 1..Len(twilioSent) : ~ IsClearFrame(twilioSent[i])
  /\ \A i \in 1..Len(upstreamSent) : upstreamSent[i].type # "conversation.item.truncate"

\* C36: at no time is more than one hard call-duration timer pending, and after
\* every start frame exactly one is pending: the one armed before it, if any,
\* is cancelled and a new one is armed.
C36_OneTimeLimitTimer ==
  [][/\ timeLimitTimer <= 1
     /\ timeLimitTimer' <= 1
     /\ timeLimitTimer' = 1 \/ ~ TwilioStart(MaxTwilioEvents)]_vars

\* A second start frame was handled while the timer of the first was pending.
C36_Witness ==
  /\ twilioEvents = 2
  /\ mediaReceived = 0
  /\ Len(markQueue) = 0
  /\ startEventProcessed
  /\ serverSocket.state = "open"
  /\ ~ timeLimitClosing
  /\ timeLimitTimer = 1
  /\ twilioQueue = << TwEvent("start", 0), TwEvent("start", 0) >>

\* C37: whatever the bridge has sent upstream, the first event of it is the
\* session configuration; the greeting and every append-audio event come after it.
C37_SessionUpdateFirst ==
  upstreamSent # << >>
    => /\ upstreamSent[1].type = "session.update"
       /\ \A i \in 1..Len(upstreamSent) :
            upstreamSent[i].type \in {"conversation.item.create", "response.create",
                                      "input_audio_buffer.append"}
              => i > 1

\* The connect completed after a start frame and a media frame had been queued:
\* configuration, then the greeting, then the queued audio.
C37_Witness ==
  /\ Len(upstreamSent) >= 4
  /\ upstreamSent[1].type = "session.update"
  /\ upstreamSent[2].type = "conversation.item.create"
  /\ upstreamSent[3].type = "response.create"
  /\ upstreamSent[4].type = "input_audio_buffer.append"
  /\ upstreamSent[4].text = "queued"

\* The bucket has had the time to refill to its capacity and was last touched
\* more than five minutes before t.
IdleAndFull(bucket, t) ==
  /\ refill(bucket, bucket.capacity, t) >= bucket.capacity * OneToken
  /\ t - bucket.lastRefill > PruneIdleMs

\* C38: when a call runs the pruning, every bucket of another key that has
\* refilled to capacity and was not touched for more than five minutes is
\* removed from the map.
C38_IdleFullBucketPruned ==
  [][(Len(consumed') > Len(consumed) /\ consumed'[Len(consumed')].pruned)
       => \A k \in DOMAIN buckets \ {consumed'[Len(consumed')].key} :
            IdleAndFull(buckets[k], rateNow) => k \notin DOMAIN buckets']_vars

\* Pruning never removes a bucket.
PruneRemovesNothing ==
  [][DOMAIN buckets \subseteq DOMAIN buckets']_vars

\* C39: fed the same calls at the same times, the object's bucket gives for
\* every call the answer of the in-memory bucket, allowed and retryAfterMs
\* alike, from the first call on.
C39_SameAnswers ==
  /\ Len(answered) = Len(consumed)
  /\ \A i \in 1..Len(consumed) :
       /\ answered[i].allowed = consumed[i].allowed
       /\ answered[i].retryAfterMs = consumed[i].retryAfterMs

\* Both buckets admitted the first call, rejected a later one with a wait, and
\* admitted one after the refill.
C39_Witness ==
  /\ Len(consumed) >= 3
  /\ Len(answered) = Len(consumed)
  /\ consumed[1].allowed /\ answered[1].allowed
  /\ \E i \in 2..Len(consumed) :
       /\ ~ consumed[i].allowed /\ ~ answered[i].allowed
       /\ consumed[i].retryAfterMs > 0
       /\ \E j \in (i + 1)..Len(consumed) : consumed[j].allowed /\ answered[j].allowed

\* C40: with caller media timestamps that do not decrease within a stream, a
\* playback anchor that is set is never ahead of the media clock, start frames
\* included, and so every truncate event sent upstream carries an
\* audio_end_ms of 0 or more.
C40_TruncateNotNegative ==
  /\ \A i \in DOMAIN upstreamSent :
       IsTruncate(upstreamSent[i]) => upstreamSent[i].n >= 0
  /\ responseStartTimestampTwilio # NoTimestamp
       => responseStartTimestampTwilio <= latestMediaTimestamp

\* A start frame reset the clock and the anchor; the stream then ran to 1000,
\* the assistant started to speak, and the caller cut in at 1350.
C40_Witness ==
  /\ startEventProcessed
  /\ twilioEvents = 3
  /\ mediaReceived = 2
  /\ latestMediaTimestamp = 1350
  /\ responseStartTimestampTwilio = NoTimestamp
  /\ \E i \in DOMAIN upstreamSent : IsTruncate(upstreamSent[i]) /\ upstreamSent[i].n = 350

====
